---- MODULE Spec2Model ----
(***************************************************************************)
(* Model of the reconciliation engine of the contactdb API                 *)
(* (contactdb_api/contactdb_api/serve.py): the annotation diff, the leaf   *)
(* and shared-resource synchronizers, the create/update/delete             *)
(* orchestrators and the batch executor commit_pending_org_changes.        *)
(***************************************************************************)
EXTENDS Integers, Sequences, FiniteSets, TLC

VARIABLES
    annos_are,      \* _annotation_diff: first argument
    annos_should,   \* _annotation_diff: second argument
    detect_flag,    \* _annotation_diff: detect_modifications argument
    diff_out,       \* _annotation_diff: returned dict (plus the warning)
    db,             \* the tables of the contact database (manual variant)
    last,           \* the last request to /org/manual/commit and its response
    batches,        \* concurrent requests: where each one is in _update_org
    finished,       \* concurrent requests: the order in which they ended
    start_db,       \* concurrent requests: the database before the first one
    contactdb_pool, \* the connections of the pool: idle ones and handed-out ones
    handout         \* where one caller of db_connection is

diffvars == <<annos_are, annos_should, detect_flag, diff_out>>

poolvars == <<batches, finished, start_db>>

connvars == <<contactdb_pool, handout>>

(***************************************************************************)
(* Bounds of the model.                                                    *)
(***************************************************************************)
MaxAnnoLen == 2     \* longest freely chosen annotation list
PadLen == 9         \* length of the padding that makes a list long
MaxOrgs == 2        \* organisations ever created
MaxBatch == 2       \* commands in one request
MaxSerial == 1      \* a request is taken while the id sequences are at most here
MaxAudit == 4       \* a request is taken while the audit log is at most this long
MaxThreads == 2     \* requests that are served at the same time
MaxCalls == 2       \* calls of db_connection by the one caller that is followed

(***************************************************************************)
(* Program constants.                                                      *)
(***************************************************************************)
ANNOTATION_DIFF_MAX == 20

MAX_POOL_CONNECTIONS == 4

(***************************************************************************)
(* Annotations.  A Python annotation dict {"tag":.., "expires":..,         *)
(* "condition":..} is a record; a key that is not in the dict has the      *)
(* value Absent (expires) or the kind "none" (condition).  A condition is  *)
(* a JSON list ["eq", ["event_field", "foo"], "bar"]; its kind tells       *)
(* whether it is held as lists (as parsed from JSON) or as tuples (as      *)
(* hashable_annotation makes it): Python never finds a list equal to a     *)
(* tuple.                                                                  *)
(***************************************************************************)
Absent == "<absent>"

NoCondition == [kind |-> "none", val |-> ""]

ListCondition(v) == [kind |-> "list", val |-> v]

Anno(t, e, c) == [tag |-> t, expires |-> e, condition |-> c]

TAG_1 == Anno("1", Absent, NoCondition)
TAG_2 == Anno("2", Absent, NoCondition)
TAG_1_NEVER == Anno("1", "", NoCondition)
TAG_1_EXPIRE == Anno("1", "2024-01-01", NoCondition)
INHIBITION_EXPIRE == Anno("1", "2024-01-01", ListCondition("eq foo bar"))

AnnoUniverse ==
    {TAG_1, TAG_2, TAG_1_NEVER, TAG_1_EXPIRE, INHIBITION_EXPIRE}

SeqsUpTo(S, n) == UNION {[1..k -> S] : k \in 0..n}

RECURSIVE Repeat(_, _)
Repeat(x, n) == IF n = 0 THEN <<>> ELSE <<x>> \o Repeat(x, n - 1)

\* the annotation lists the model passes around: short lists of any
\* annotations, optionally followed by PadLen copies of one annotation, and
\* the list [TAG_1] * PadLen
Paddings == {<<>>, Repeat(TAG_1_NEVER, PadLen)}

AnnoLists ==
    {base \o pad : base \in SeqsUpTo(AnnoUniverse, MaxAnnoLen), pad \in Paddings}
    \cup {Repeat(TAG_1, PadLen)}

Range(s) == {s[i] : i \in 1..Len(s)}

InList(x, s) == \E i \in 1..Len(s) : s[i] = x

\* mutant of ListRemove: the list is left as it is
ListRemove_keeps(s, x) == s

\* list.remove(x): drops the first element equal to x
ListRemove(s, x) ==
    IF ~InList(x, s) THEN s
    ELSE LET i == CHOOSE k \in 1..Len(s) : s[k] = x /\ \A m \in 1..(k - 1) : s[m] # x
         IN SubSeq(s, 1, i - 1) \o SubSeq(s, i + 1, Len(s))

(***************************************************************************)
(* Hashabledict, hashable_annotation, unhashable_annotation                *)
(***************************************************************************)
hashable_annotation(anno) ==
    IF anno.condition.kind = "none" THEN anno
    ELSE [anno EXCEPT !.condition.kind = "tuple"]

\* mutant of unhashable_annotation: the tuples are not turned back into lists
unhashable_annotation_keeps_tuples(anno) == anno

unhashable_annotation(anno) ==
    IF anno.condition.kind = "none" THEN anno
    ELSE [anno EXCEPT !.condition.kind = "list"]

\* Hashabledict.__lt__ compares the strings f"{tag}{expires}{inhibtion}";
\* a missing key prints as "None" and 'inhibtion' is never a key.  For one
\* tag the strings are ordered: dates ("2...") < "" ("None") < missing
\* ("NoneNone"); the tags "1" and "2" differ in their first character.
TagRank(t) == CASE t = "1" -> 1 [] t = "2" -> 2

ExpiresRank(e) == CASE e = "2024-01-01" -> 0 [] e = "" -> 1 [] e = Absent -> 2

Hashabledict_lt(a, b) ==
    \/ TagRank(a.tag) < TagRank(b.tag)
    \/ TagRank(a.tag) = TagRank(b.tag) /\ ExpiresRank(a.expires) < ExpiresRank(b.expires)

\* sorted(set): annotations that __lt__ does not order (they differ in the
\* condition only) come out in the iteration order of the set, which the
\* hashes decide; tie tells which of the two orders it is.
ComesFirst(a, b, tie) ==
    \/ Hashabledict_lt(a, b)
    \/ ~Hashabledict_lt(b, a) /\ (a = b \/ tie = (a.condition.kind = "none"))

RECURSIVE sorted(_, _)
sorted(S, tie) ==
    IF S = {} THEN <<>>
    ELSE LET m == CHOOSE x \in S : \A y \in S : ComesFirst(x, y, tie)
         IN <<m>> \o sorted(S \ {m}, tie)

\* dict(anno) with 'expires' popped
anno_never(anno) == [anno EXCEPT !.expires = Absent]

\* index of the first element of pool that equals anno but for expires, or 0
FirstPartner(pool, anno) ==
    IF \E k \in 1..Len(pool) : anno_never(pool[k]) = anno_never(anno)
    THEN CHOOSE k \in 1..Len(pool) :
            /\ anno_never(pool[k]) = anno_never(anno)
            /\ \A m \in 1..(k - 1) : anno_never(pool[m]) # anno_never(anno)
    ELSE 0

LogEntry(a, l) == [data |-> a, log |-> l]

\* mutant of RemoveLoop: the added half of a pair is logged as an addition
RECURSIVE RemoveLoop_logs_pair(_, _, _)
RemoveLoop_logs_pair(i, snapshot, st) ==
    IF i > Len(snapshot) THEN st
    ELSE LET anno == snapshot[i]
             j == FirstPartner(st.to_add, anno)
         IN IF j = 0
            THEN RemoveLoop_logs_pair(i + 1, snapshot,
                    [st EXCEPT !.remove = Append(@, LogEntry(unhashable_annotation(anno), TRUE))])
            ELSE LET compare_anno == st.to_add[j]
                 IN RemoveLoop_logs_pair(i + 1, snapshot,
                    [st EXCEPT
                        !.remove = Append(@, LogEntry(unhashable_annotation(anno), FALSE)),
                        !.add = Append(@, LogEntry(unhashable_annotation(compare_anno), TRUE)),
                        !.change = Append(@, [before |-> unhashable_annotation(anno),
                                              after |-> unhashable_annotation(compare_anno)]),
                        !.to_add = ListRemove(@, compare_anno),
                        !.to_remove = ListRemove(@, anno)])

\* first loop of the detection branch: for anno in to_remove.copy()
RECURSIVE RemoveLoop(_, _, _)
RemoveLoop(i, snapshot, st) ==
    IF i > Len(snapshot) THEN st
    ELSE LET anno == snapshot[i]
             j == FirstPartner(st.to_add, anno)
         IN IF j = 0
            THEN RemoveLoop(i + 1, snapshot,
                    [st EXCEPT !.remove = Append(@, LogEntry(unhashable_annotation(anno), TRUE))])
            ELSE LET compare_anno == st.to_add[j]
                 IN RemoveLoop(i + 1, snapshot,
                    [st EXCEPT
                        !.remove = Append(@, LogEntry(unhashable_annotation(anno), FALSE)),
                        !.add = Append(@, LogEntry(unhashable_annotation(compare_anno), FALSE)),
                        !.change = Append(@, [before |-> unhashable_annotation(anno),
                                              after |-> unhashable_annotation(compare_anno)]),
                        !.to_add = ListRemove(@, compare_anno),
                        !.to_remove = ListRemove(@, anno)])

\* second loop of the detection branch: for anno in to_add
RECURSIVE AddLoop(_, _, _)
AddLoop(i, to_add, st) ==
    IF i > Len(to_add) THEN st
    ELSE LET anno == to_add[i]
             j == FirstPartner(st.to_remove, anno)
         IN IF j = 0
            THEN AddLoop(i + 1, to_add,
                    [st EXCEPT !.add = Append(@, LogEntry(unhashable_annotation(anno), TRUE))])
            ELSE LET compare_anno == st.to_remove[j]
                 IN AddLoop(i + 1, to_add,
                    [st EXCEPT
                        !.add = Append(@, LogEntry(unhashable_annotation(anno), FALSE)),
                        !.remove = Append(@, LogEntry(unhashable_annotation(compare_anno), FALSE)),
                        !.change = Append(@, [after |-> unhashable_annotation(anno),
                                              before |-> unhashable_annotation(compare_anno)]),
                        !.to_remove = ListRemove(@, compare_anno)])

\* the two loops, run one after the other on the sorted differences
RunRemoveLoop(st) == RemoveLoop(1, st.to_remove, st)

RunAddLoop(st) == AddLoop(1, st.to_add, st)

\* mutant of DiffResult: the removals are not returned
DiffResult_without_remove(st) == [add |-> st.add, remove |-> <<>>, change |-> st.change]

\* return {"add": add, "remove": remove, "change": change}
DiffResult(st) == [add |-> st.add, remove |-> st.remove, change |-> st.change]

DetectBranch(are_list, should_list, tie) ==
    LET are == {hashable_annotation(e) : e \in Range(are_list)}
        should == {hashable_annotation(e) : e \in Range(should_list)}
    IN DiffResult(RunAddLoop(RunRemoveLoop(
            [to_remove |-> sorted(are \ should, tie),
             to_add |-> sorted(should \ are, tie),
             add |-> <<>>, remove |-> <<>>, change |-> <<>>])))

\* mutant of PlainBranch: add is not filtered against the current list
PlainBranch_adds_all(are_list, should_list) ==
    LET old == SelectSeq(are_list, LAMBDA a : ~InList(a, should_list))
    IN [add |-> [i \in 1..Len(should_list) |-> LogEntry(should_list[i], TRUE)],
        remove |-> [i \in 1..Len(old) |-> LogEntry(old[i], TRUE)],
        change |-> <<>>]

PlainBranch(are_list, should_list) ==
    LET new == SelectSeq(should_list, LAMBDA a : ~InList(a, are_list))
        old == SelectSeq(are_list, LAMBDA a : ~InList(a, should_list))
    IN [add |-> [i \in 1..Len(new) |-> LogEntry(new[i], TRUE)],
        remove |-> [i \in 1..Len(old) |-> LogEntry(old[i], TRUE)],
        change |-> <<>>]

\* mutant of DiffWarns: the cutoff is taken above ANNOTATION_DIFF_MAX only
DiffWarns_above_max(are_list, should_list) ==
    Len(are_list) + Len(should_list) > ANNOTATION_DIFF_MAX

\* whether _annotation_diff calls warn()
DiffWarns(are_list, should_list) ==
    Len(are_list) + Len(should_list) >= ANNOTATION_DIFF_MAX

_annotation_diff(are_list, should_list, detect_modifications, tie) ==
    LET detect == IF DiffWarns(are_list, should_list) THEN FALSE ELSE detect_modifications
    IN IF detect THEN DetectBranch(are_list, should_list, tie)
                 ELSE PlainBranch(are_list, should_list)

(***************************************************************************)
(* The database.  Python dicts and table rows are records: a key that is   *)
(* missing from a dict is a field that is missing from the record; SQL     *)
(* NULL and Python None are the value Null.  _db_query and _db_manipulate  *)
(* commit after every statement, so each statement is applied to db at     *)
(* once and stays applied.                                                 *)
(***************************************************************************)
Null == "<null>"

AnnotationTables == {"organisation", "autonomous_system", "network", "fqdn"}

NtmTables == {"network", "fqdn"}

LeafTables == {"contact", "national_cert"}

EmptyDb ==
    [organisation |-> {},
     annotation |-> [t \in AnnotationTables |-> <<>>],
     organisation_to_asn |-> {},
     ntm |-> [t \in NtmTables |-> {}],
     organisation_to_ntm |-> [t \in NtmTables |-> {}],
     leaf |-> [t \in LeafTables |-> {}],
     audit_log |-> <<>>,
     serial |-> [t \in {"organisation"} \cup NtmTables \cup LeafTables |-> 0]]

\* a context: the database so far and the exception that was raised ("" if
\* none); everything a handler runs after an exception is skipped
Ok(d) == [db |-> d, err |-> "", ret |-> 0]

Raise(d, e) == [db |-> d, err |-> e, ret |-> 0]

\* ORDER BY: the position of a text value among the values of the model
TextRank(s) ==
    CASE s = "" -> 0
      [] s = "10.0.0.0/8" -> 1
      [] s = "192.168.0.0/16" -> 2
      [] s = "abuse@example.com" -> 3
      [] s = "DE" -> 4
      [] s = "example.com" -> 5
      [] s = "example.org" -> 6

\* the elements of a finite set as a list, smallest key first; key is a
\* function on the set
RECURSIVE OrderBy(_, _)
OrderBy(S, key) ==
    IF S = {} THEN <<>>
    ELSE LET m == CHOOSE x \in S : \A y \in S : key[x] <= key[y]
         IN <<m>> \o OrderBy(S \ {m}, key)

\* the elements of a list, smallest key first, equal keys in list order;
\* key is a function on the elements
RECURSIVE StableSort(_, _)
StableSort(s, key) ==
    IF s = <<>> THEN <<>>
    ELSE LET i == CHOOSE k \in 1..Len(s) :
                    /\ \A m \in 1..Len(s) : key[s[k]] <= key[s[m]]
                    /\ \A m \in 1..(k - 1) : key[s[m]] > key[s[k]]
         IN <<s[i]>> \o StableSort(SubSeq(s, 1, i - 1) \o SubSeq(s, i + 1, Len(s)), key)

\* the annotation as the json column holds it: arrays, never tuples
Json(anno) ==
    IF anno.condition.kind = "none" THEN anno
    ELSE [anno EXCEPT !.condition.kind = "list"]

__db_query_annotations(d, table, column_value) ==
    LET rows == SelectSeq(d.annotation[table], LAMBDA r : r.key = column_value)
        annos == [i \in 1..Len(rows) |-> rows[i].annotation]
    IN StableSort(annos, [a \in Range(annos) |-> TagRank(a.tag)])

\* the audit log names an autonomous system by its number and the other
\* objects by their name, address or domain
__get_name_to_object(d, object_type, object_value) ==
    IF object_type = "autonomous_system" THEN ToString(object_value)
    ELSE IF object_type = "organisation"
         THEN (CHOOSE o \in d.organisation : o.organisation_id = object_value).name
         ELSE (CHOOSE n \in d.ntm[object_type] : n.id = object_value).value

AuditAdd(d, table_pre, username, object, anno) ==
    [d EXCEPT !.audit_log = Append(@,
        [table |-> table_pre \o "_annotation", user |-> username, operation |-> "add",
         object_type |-> table_pre, object_value |-> object, after |-> Json(anno)])]

\* mutant of AuditRemove: the entry takes the place of the newest one
AuditRemove_overwrites(d, table_pre, username, object, anno) ==
    [d EXCEPT !.audit_log = IF @ = <<>> THEN @ ELSE SubSeq(@, 1, Len(@) - 1)]

AuditRemove(d, table_pre, username, object, anno) ==
    [d EXCEPT !.audit_log = Append(@,
        [table |-> table_pre \o "_annotation", user |-> username, operation |-> "remove",
         object_type |-> table_pre, object_value |-> object, before |-> Json(anno)])]

AuditChange(d, table_pre, username, object, change) ==
    [d EXCEPT !.audit_log = Append(@,
        [table |-> table_pre \o "_annotation", user |-> username, operation |-> "change",
         object_type |-> table_pre, object_value |-> object,
         before |-> Json(change.before), after |-> Json(change.after)])]

InsertAnnotation(d, table_pre, column_value, anno) ==
    [d EXCEPT !.annotation[table_pre] =
        Append(@, [key |-> column_value, annotation |-> Json(anno)])]

\* DELETE FROM {0}_annotation WHERE {1} = %s AND annotation = %s::jsonb
DeleteAnnotation(d, table_pre, column_value, anno) ==
    [d EXCEPT !.annotation[table_pre] =
        SelectSeq(@, LAMBDA r : ~(r.key = column_value /\ r.annotation = Json(anno)))]

RECURSIVE AddAnnotations(_, _, _, _, _, _, _)
AddAnnotations(d, i, add, table_pre, column_value, username, object) ==
    IF i > Len(add) THEN d
    ELSE LET logged == IF add[i].log
                       THEN AuditAdd(d, table_pre, username, object, add[i].data)
                       ELSE d
         IN AddAnnotations(InsertAnnotation(logged, table_pre, column_value, add[i].data),
                           i + 1, add, table_pre, column_value, username, object)

RECURSIVE RemoveAnnotations(_, _, _, _, _, _, _)
RemoveAnnotations(d, i, remove, table_pre, column_value, username, object) ==
    IF i > Len(remove) THEN d
    ELSE LET deleted == DeleteAnnotation(d, table_pre, column_value, remove[i].data)
         IN RemoveAnnotations(IF remove[i].log
                              THEN AuditRemove(deleted, table_pre, username, object, remove[i].data)
                              ELSE deleted,
                              i + 1, remove, table_pre, column_value, username, object)

RECURSIVE LogChanges(_, _, _, _, _, _)
\* mutant of LogChanges: a changed expiry date leaves no entry
LogChanges_skipped(d, i, change, table_pre, username, object) == d

LogChanges(d, i, change, table_pre, username, object) ==
    IF i > Len(change) THEN d
    ELSE LogChanges(AuditChange(d, table_pre, username, object, change[i]),
                    i + 1, change, table_pre, username, object)

\* if mode == "cut": remove superfluous annotations
CutAnnotations(d, remove, mode, table_pre, column_value, username, object) ==
    IF mode = "cut"
    THEN RemoveAnnotations(d, 1, remove, table_pre, column_value, username, object)
    ELSE d

\* the three loops over anno_diff
ApplyDiff(d, anno_diff, mode, table_pre, column_value, username, object) ==
    LogChanges(
        CutAnnotations(
            AddAnnotations(d, 1, anno_diff.add, table_pre, column_value, username, object),
            anno_diff.remove, mode, table_pre, column_value, username, object),
        1, anno_diff.change, table_pre, username, object)

__fix_annotations_to_table(d, annos_should_, mode, table_pre, column_value, username, tie) ==
    ApplyDiff(d,
              _annotation_diff(__db_query_annotations(d, table_pre, column_value),
                               annos_should_, mode = "cut", tie),
              mode, table_pre, column_value, username,
              __get_name_to_object(d, table_pre, column_value))

(***************************************************************************)
(* __fix_asns_to_org                                                       *)
(***************************************************************************)
\* INSERT INTO organisation_to_asn, unless the SELECT finds the link
LinkAsn(d, org_id, asn_id) ==
    IF [organisation_id |-> org_id, asn |-> asn_id] \in d.organisation_to_asn THEN d
    ELSE [d EXCEPT !.organisation_to_asn = @ \cup {[organisation_id |-> org_id, asn |-> asn_id]}]

RECURSIVE FixAsnLoop(_, _, _, _, _, _, _)
FixAsnLoop(d, i, asns, mode, org_id, username, tie) ==
    IF i > Len(asns) THEN d
    ELSE LET asn == asns[i]
             asn_id == asn.asn
             annos_should_ == IF "annotations" \in DOMAIN asn THEN asn.annotations ELSE <<>>
         IN FixAsnLoop(
                LinkAsn(__fix_annotations_to_table(d, annos_should_, mode,
                                                   "autonomous_system", asn_id, username, tie),
                        org_id, asn_id),
                i + 1, asns, mode, org_id, username, tie)

\* mutant of UnlinkOtherAsns: the links are left in the table
UnlinkOtherAsns_skipped(d, org_id, asns) == d

\* DELETE FROM organisation_to_asn WHERE organisation_id = %s AND asn != ALL(%s)
UnlinkOtherAsns(d, org_id, asns) ==
    LET numbers == {asns[i].asn : i \in 1..Len(asns)}
    IN [d EXCEPT !.organisation_to_asn =
            {l \in @ : ~(l.organisation_id = org_id /\ l.asn \notin numbers)}]

\* mutant of DeleteUnlinkedAsnAnnotations: the annotations are left in the table
DeleteUnlinkedAsnAnnotations_skipped(d) == d

\* DELETE FROM autonomous_system_annotation as asa
\*     WHERE asa.asn NOT IN (SELECT asn FROM organisation_to_asn)
DeleteUnlinkedAsnAnnotations(d) ==
    [d EXCEPT !.annotation["autonomous_system"] =
        SelectSeq(@, LAMBDA r : \E l \in d.organisation_to_asn : l.asn = r.key)]

__fix_asns_to_org(d, asns, mode, org_id, username, tie) ==
    DeleteUnlinkedAsnAnnotations(
        UnlinkOtherAsns(FixAsnLoop(d, 1, asns, mode, org_id, username, tie), org_id, asns))

(***************************************************************************)
(* __fix_ntms_to_org                                                       *)
(***************************************************************************)
ValuesOf(ntms, column_name) == {ntms[i][column_name] : i \in 1..Len(ntms)}

\* remove links to orgs that we do not want anymore
RECURSIVE SuperfluousLoop(_, _, _, _, _, _, _)
SuperfluousLoop(d, i, superfluous, table_name, org_id, username, tie) ==
    IF i > Len(superfluous) THEN d
    ELSE LET entry_id == superfluous[i][table_name \o "_id"]
             cut == __fix_annotations_to_table(d, <<>>, "cut", table_name, entry_id,
                                               username, tie)
             unlinked == [cut EXCEPT !.organisation_to_ntm[table_name] =
                            @ \ {[organisation_id |-> org_id, id |-> entry_id]}]
         IN SuperfluousLoop(unlinked, i + 1, superfluous, table_name, org_id, username, tie)

\* mutant of InsertNtm: a row with the value is taken if there is one
InsertNtm_reuses(d, table_name, value, comment) ==
    IF \E n \in d.ntm[table_name] : n.value = value THEN d
    ELSE [d EXCEPT !.serial[table_name] = @ + 1,
                   !.ntm[table_name] = @ \cup {[id |-> d.serial[table_name] + 1,
                                                value |-> value, comment |-> comment]}]

\* INSERT INTO {0} ({1}, comment) VALUES (..) RETURNING {2}
InsertNtm(d, table_name, value, comment) ==
    [d EXCEPT !.serial[table_name] = @ + 1,
              !.ntm[table_name] = @ \cup {[id |-> d.serial[table_name] + 1,
                                           value |-> value, comment |-> comment]}]

RECURSIVE MissingLoop(_, _, _, _, _, _, _, _, _)
\* mutant of MissingLoop: a value that was added already is added again
MissingLoop_adds_duplicates(c, i, missing, values_already_added, table_name, column_name, org_id, username, tie) ==
    IF c.err # "" \/ i > Len(missing) THEN c
    ELSE LET entry == missing[i]
         IN IF "comment" \notin DOMAIN entry THEN Raise(c.db, "KeyError")
            ELSE LET inserted == InsertNtm(c.db, table_name, entry[column_name], entry.comment)
                     new_entry_id == inserted.serial[table_name]
                 IN IF "annotations" \notin DOMAIN entry THEN Raise(inserted, "KeyError")
                    ELSE LET annotated == __fix_annotations_to_table(inserted,
                                            entry.annotations, "add", table_name,
                                            new_entry_id, username, tie)
                             linked == [annotated EXCEPT !.organisation_to_ntm[table_name] =
                                          @ \cup {[organisation_id |-> org_id,
                                                   id |-> new_entry_id]}]
                         IN MissingLoop(Ok(linked), i + 1, missing,
                                        values_already_added \cup {entry[column_name]},
                                        table_name, column_name, org_id, username, tie)

\* create and link missing entries
MissingLoop(c, i, missing, values_already_added, table_name, column_name, org_id, username, tie) ==
    IF c.err # "" \/ i > Len(missing) THEN c
    ELSE LET entry == missing[i]
         IN IF entry[column_name] \in values_already_added
            THEN MissingLoop(c, i + 1, missing, values_already_added, table_name,
                             column_name, org_id, username, tie)
            ELSE IF "comment" \notin DOMAIN entry THEN Raise(c.db, "KeyError")
            ELSE LET inserted == InsertNtm(c.db, table_name, entry[column_name], entry.comment)
                     new_entry_id == inserted.serial[table_name]
                 IN IF "annotations" \notin DOMAIN entry THEN Raise(inserted, "KeyError")
                    ELSE LET annotated == __fix_annotations_to_table(inserted,
                                            entry.annotations, "add", table_name,
                                            new_entry_id, username, tie)
                             linked == [annotated EXCEPT !.organisation_to_ntm[table_name] =
                                          @ \cup {[organisation_id |-> org_id,
                                                   id |-> new_entry_id]}]
                         IN MissingLoop(Ok(linked), i + 1, missing,
                                        values_already_added \cup {entry[column_name]},
                                        table_name, column_name, org_id, username, tie)

\* the first desired entry with the value of entry_is
EntryShould(ntms_should, column_name, entry_is) ==
    ntms_should[CHOOSE k \in 1..Len(ntms_should) :
                    /\ ntms_should[k][column_name] = entry_is[column_name]
                    /\ \A m \in 1..(k - 1) :
                            ntms_should[m][column_name] # entry_is[column_name]]

\* mutant of UpdateNtmComment: the comment of the row is left as it is
UpdateNtmComment_skipped(d, table_name, entry_id, comment) == d

\* UPDATE {0} SET (comment) = row(%s) WHERE {1} = %s
UpdateNtmComment(d, table_name, entry_id, comment) ==
    [d EXCEPT !.ntm[table_name] =
        {IF n.id = entry_id THEN [n EXCEPT !.comment = comment] ELSE n : n \in @}]

\* update and link existing entries
RECURSIVE ExistingLoop(_, _, _, _, _, _, _, _)
ExistingLoop(c, i, existing, ntms_should, table_name, column_name, username, tie) ==
    IF c.err # "" \/ i > Len(existing) THEN c
    ELSE LET entry_is == existing[i]
             entry_should == EntryShould(ntms_should, column_name, entry_is)
             entry_id == entry_is[table_name \o "_id"]
         IN IF "comment" \notin DOMAIN entry_should THEN Raise(c.db, "KeyError")
            ELSE LET updated == UpdateNtmComment(c.db, table_name, entry_id,
                                                 entry_should.comment)
                 IN IF "annotations" \notin DOMAIN entry_should
                    THEN Raise(updated, "KeyError")
                    ELSE ExistingLoop(
                            Ok(__fix_annotations_to_table(updated, entry_should.annotations,
                                    "cut", table_name, entry_id, username, tie)),
                            i + 1, existing, ntms_should, table_name, column_name,
                            username, tie)

\* mutant of MissingEntries: every desired entry counts as missing
MissingEntries_all(ntms_should, values_are, column_name) == ntms_should

\* missing = [n for n in ntms_should if n[column_name] not in values_are]
MissingEntries(ntms_should, values_are, column_name) ==
    SelectSeq(ntms_should, LAMBDA n : n[column_name] \notin values_are)

\* mutant of PruneNtm: rows without a link are kept
PruneNtm_keeps_rows(d, table_name) == d

\* delete entries that are not linked anymore
PruneNtm(d, table_name) ==
    [d EXCEPT !.ntm[table_name] =
        {n \in @ : \E l \in d.organisation_to_ntm[table_name] : l.id = n.id}]

\* the last statement of __fix_ntms_to_org, not reached after an exception
PruneStep(c, table_name) ==
    IF c.err # "" THEN c ELSE Ok(PruneNtm(c.db, table_name))

__fix_ntms_to_org(d, ntms_should, ntms_are, table_name, column_name, org_id, username, tie) ==
    LET values_should == ValuesOf(ntms_should, column_name)
        values_are == ValuesOf(ntms_are, column_name)
        superfluous == SelectSeq(ntms_are, LAMBDA n : n[column_name] \notin values_should)
        missing == MissingEntries(ntms_should, values_are, column_name)
        existing == SelectSeq(ntms_are, LAMBDA n : n[column_name] \in values_should)
        c1 == Ok(SuperfluousLoop(d, 1, superfluous, table_name, org_id, username, tie))
        c2 == MissingLoop(c1, 1, missing, {}, table_name, column_name, org_id,
                          username, tie)
        c3 == ExistingLoop(c2, 1, existing, ntms_should, table_name, column_name,
                           username, tie)
    IN PruneStep(c3, table_name)

(***************************************************************************)
(* __fix_leafnodes_to_org                                                  *)
(***************************************************************************)
CONTACT_ATTRIBUTES == {"firstname", "lastname", "tel", "openpgp_fpr", "email", "comment"}

NATIONAL_CERT_ATTRIBUTES == {"country_code", "comment"}

RECURSIVE LeafLoop(_, _, _, _, _, _)
LeafLoop(c, i, leafs, table, needed_attributes, org_id) ==
    IF c.err # "" \/ i > Len(leafs) THEN c
    ELSE LET leaf == leafs[i]
         IN IF \E attribute \in needed_attributes :
                    attribute \notin DOMAIN leaf \/ leaf[attribute] = Null
            THEN Raise(c.db, "CommitError")
            ELSE LeafLoop(
                    Ok([c.db EXCEPT
                        !.serial[table] = @ + 1,
                        !.leaf[table] = @ \cup
                            {[id |-> c.db.serial[table] + 1,
                              organisation_id |-> org_id,
                              attrs |-> [a \in needed_attributes |-> leaf[a]]]}]),
                    i + 1, leafs, table, needed_attributes, org_id)

\* mutant of DeleteLeafs: the rows of every organisation are deleted
DeleteLeafs_of_all(d, table, org_id) == [d EXCEPT !.leaf[table] = {}]

\* mutant of DeleteLeafs: the rows of the organisation stay
DeleteLeafs_keeps_rows(d, table, org_id) == d

\* DELETE FROM <table> WHERE organisation_id = %s
DeleteLeafs(d, table, org_id) ==
    [d EXCEPT !.leaf[table] = {r \in @ : r.organisation_id # org_id}]

__fix_leafnodes_to_org(d, leafs, table, needed_attributes, org_id) ==
    LeafLoop(Ok(DeleteLeafs(d, table, org_id)), 1, leafs, table, needed_attributes, org_id)

(***************************************************************************)
(* __db_query_org: the aggregate of one organisation, {} if there is none  *)
(***************************************************************************)
SCALAR_COLUMNS == {"name", "sector_id", "comment", "ripe_org_hdl", "ti_handle", "first_handle"}

Has(dict, k) == k \in DOMAIN dict

\* rows that ORDER BY does not tell apart come in the order of their ids
RowKey(rank, id) == rank * 1000 + id

LeafDict(table, r) ==
    ((table \o "_id") :> r.id) @@ [organisation_id |-> r.organisation_id] @@ r.attrs

NtmDict(d, table, column_name, n) ==
    ((table \o "_id") :> n.id) @@ (column_name :> n.value) @@
    [comment |-> n.comment, annotations |-> __db_query_annotations(d, table, n.id)]

QueryLeafs(d, table, order_column, org_id) ==
    LET rows == {r \in d.leaf[table] : r.organisation_id = org_id}
        ordered == OrderBy(rows, [r \in rows |-> RowKey(TextRank(r.attrs[order_column]), r.id)])
    IN [i \in 1..Len(ordered) |-> LeafDict(table, ordered[i])]

QueryNtms(d, table, column_name, org_id) ==
    LET rows == {n \in d.ntm[table] :
                    [organisation_id |-> org_id, id |-> n.id] \in d.organisation_to_ntm[table]}
        ordered == OrderBy(rows, [n \in rows |-> RowKey(TextRank(n.value), n.id)])
    IN [i \in 1..Len(ordered) |-> NtmDict(d, table, column_name, ordered[i])]

QueryAsns(d, org_id) ==
    LET rows == {l \in d.organisation_to_asn : l.organisation_id = org_id}
        ordered == OrderBy(rows, [l \in rows |-> l.asn])
    IN [i \in 1..Len(ordered) |->
            ordered[i] @@
            [annotations |-> __db_query_annotations(d, "autonomous_system", ordered[i].asn)]]

__db_query_org(d, org_id) ==
    LET results == {o \in d.organisation : o.organisation_id = org_id}
    IN IF Cardinality(results) # 1 THEN <<>>
       ELSE (CHOOSE o \in results : TRUE) @@
            [asns |-> QueryAsns(d, org_id),
             contacts |-> QueryLeafs(d, "contact", "email", org_id),
             national_certs |-> QueryLeafs(d, "national_cert", "country_code", org_id),
             networks |-> QueryNtms(d, "network", "address", org_id),
             fqdns |-> QueryNtms(d, "fqdn", "fqdn", org_id),
             annotations |-> __db_query_annotations(d, "organisation", org_id)]

(***************************************************************************)
(* _create_org                                                             *)
(***************************************************************************)
IsString(dict, k) == Has(dict, k) => dict[k] # Null

\* the items of the array dict[k]; none if the key is missing
ItemsOf(dict, k) == IF Has(dict, k) THEN Range(dict[k]) ELSE {}

\* "$defs": {"annotations": ...}: every item has a non-empty tag
AnnotationsValid(dict) == \A a \in ItemsOf(dict, "annotations") : a.tag # ""

\* jsonschema.Draft202012Validator(create_org_schema) finds no error
SchemaValid(org) ==
    /\ Has(org, "name") /\ org.name # Null /\ org.name # ""
    /\ \A k \in {"comment", "ripe_org_hdl", "ti_handle", "first_handle"} : IsString(org, k)
    /\ AnnotationsValid(org)
    /\ \A a \in ItemsOf(org, "asns") : Has(a, "asn") /\ a.asn >= 0 /\ AnnotationsValid(a)
    /\ \A c \in ItemsOf(org, "contacts") :
            /\ \A k \in CONTACT_ATTRIBUTES : Has(c, k) /\ c[k] # Null
            /\ c.email # ""
    /\ \A f \in ItemsOf(org, "fqdns") :
            Has(f, "fqdn") /\ f.fqdn # "" /\ IsString(f, "comment") /\ AnnotationsValid(f)
    /\ \A n \in ItemsOf(org, "networks") :
            Has(n, "address") /\ n.address # "" /\ IsString(n, "comment") /\ AnnotationsValid(n)
    /\ \A n \in ItemsOf(org, "national_certs") : Has(n, "country_code") /\ IsString(n, "comment")

NEEDED_ATTRIBS == {"name", "comment", "ripe_org_hdl", "ti_handle", "first_handle"}

\* org[attrib] = '' for every needed attribute that is None
NoneToEmpty(org) ==
    [k \in DOMAIN org |-> IF k \in NEEDED_ATTRIBS /\ org[k] = Null THEN "" ELSE org[k]]

OrganisationRow(org, org_id) ==
    [organisation_id |-> org_id] @@ [k \in SCALAR_COLUMNS |-> org[k]]

\* org[key] where the handler has checked that the key is there
Get(dict, k) == IF Has(dict, k) THEN dict[k] ELSE <<>>

\* the calls a handler makes one after the other: a call is skipped once an
\* exception was raised, and org[key] raises KeyError if the key is missing
AnnotationsStep(c, org, mode, org_id, username, tie) ==
    IF c.err # "" THEN c
    ELSE IF ~Has(org, "annotations") THEN Raise(c.db, "KeyError")
    ELSE Ok(__fix_annotations_to_table(c.db, org.annotations, mode, "organisation", org_id,
                                       username, tie))

AsnsStep(c, has_asns, asns, mode, org_id, username, tie) ==
    IF c.err # "" THEN c
    ELSE IF ~has_asns THEN Raise(c.db, "KeyError")
    ELSE Ok(__fix_asns_to_org(c.db, asns, mode, org_id, username, tie))

LeafnodesStep(c, has_leafs, leafs, table, needed_attributes, org_id) ==
    IF c.err # "" THEN c
    ELSE IF ~has_leafs THEN Raise(c.db, "KeyError")
    ELSE __fix_leafnodes_to_org(c.db, leafs, table, needed_attributes, org_id)

NtmsStep(c, has_ntms, ntms_should, ntms_are, table_name, column_name, org_id, username, tie) ==
    IF c.err # "" THEN c
    ELSE IF ~has_ntms THEN Raise(c.db, "KeyError")
    ELSE __fix_ntms_to_org(c.db, ntms_should, ntms_are, table_name, column_name, org_id,
                           username, tie)

\* return <id>
Returning(c, id) == IF c.err # "" THEN c ELSE [c EXCEPT !.ret = id]

\* INSERT INTO organisation (...) VALUES (...) RETURNING organisation_id
InsertOrganisation(d, org) ==
    [d EXCEPT !.serial["organisation"] = @ + 1,
              !.organisation = @ \cup {OrganisationRow(org, d.serial["organisation"] + 1)}]

\* what _create_org does once the organisation row is inserted
CreateLinked(d, org, new_org_id, username, tie) ==
    LET c1 == AnnotationsStep(Ok(d), org, "add", new_org_id, username, tie)
        c2 == AsnsStep(c1, Has(org, "asns"), Get(org, "asns"), "add", new_org_id, username, tie)
        c3 == LeafnodesStep(c2, Has(org, "contacts"), Get(org, "contacts"), "contact",
                            CONTACT_ATTRIBUTES, new_org_id)
        c4 == LeafnodesStep(c3, Has(org, "national_certs"), Get(org, "national_certs"),
                            "national_cert", NATIONAL_CERT_ATTRIBUTES, new_org_id)
        c5 == NtmsStep(c4, Has(org, "networks"), Get(org, "networks"), <<>>,
                       "network", "address", new_org_id, username, tie)
        c6 == NtmsStep(c5, Has(org, "fqdns"), Get(org, "fqdns"), <<>>,
                       "fqdn", "fqdn", new_org_id, username, tie)
    IN Returning(c6, new_org_id)

_create_org(d, org_in, username, tie) ==
    IF ~SchemaValid(org_in) THEN Raise(d, "ValidationError")
    ELSE IF \E attrib \in NEEDED_ATTRIBS : ~Has(org_in, attrib) THEN Raise(d, "CommitError")
    ELSE IF NoneToEmpty(org_in).name = "" THEN Raise(d, "CommitError")
    ELSE IF ~Has(org_in, "sector_id") THEN Raise(d, "KeyError")
    ELSE CreateLinked(InsertOrganisation(d, NoneToEmpty(org_in)), NoneToEmpty(org_in),
                      d.serial["organisation"] + 1, username, tie)

(***************************************************************************)
(* _update_org                                                             *)
(***************************************************************************)
\* UPDATE organisation SET (name, sector_id, ...) = (...) WHERE organisation_id = ..
UpdateOrganisationRow(d, org) ==
    [d EXCEPT !.organisation =
        {IF o.organisation_id = org.organisation_id
         THEN OrganisationRow(org, o.organisation_id) ELSE o : o \in @}]

\* networks_are = org_so_far["networks"] if "networks" in org_so_far else []
NtmsAre(org_so_far, key) == IF Has(org_so_far, key) THEN org_so_far[key] ELSE <<>>

\* the networks and then the fqdns, both against the one org_so_far
NtmsSteps(c, org_so_far, has_networks, networks, has_fqdns, fqdns, org_id, username, tie) ==
    NtmsStep(NtmsStep(c, has_networks, networks, NtmsAre(org_so_far, "networks"),
                      "network", "address", org_id, username, tie),
             has_fqdns, fqdns, NtmsAre(org_so_far, "fqdns"),
             "fqdn", "fqdn", org_id, username, tie)

\* org_so_far = __db_query_org(org_id, "") and the two calls that use it
ReadAndFixNtms(c, has_networks, networks, has_fqdns, fqdns, org_id, username, tie) ==
    IF c.err # "" THEN c
    ELSE NtmsSteps(c, __db_query_org(c.db, org_id), has_networks, networks, has_fqdns,
                   fqdns, org_id, username, tie)

UpdateRowStep(c, org) ==
    IF c.err # "" THEN c
    ELSE IF \E k \in SCALAR_COLUMNS : ~Has(org, k) THEN Raise(c.db, "KeyError")
    ELSE Ok(UpdateOrganisationRow(c.db, org))

\* what _update_org does once its checks have passed
UpdateLinked(d, org, org_id, username, tie) ==
    LET c1 == AnnotationsStep(Ok(d), org, "cut", org_id, username, tie)
        c2 == AsnsStep(c1, Has(org, "asns"), Get(org, "asns"), "cut", org_id, username, tie)
        c3 == LeafnodesStep(c2, Has(org, "contacts"), Get(org, "contacts"), "contact",
                            CONTACT_ATTRIBUTES, org_id)
        c4 == LeafnodesStep(c3, Has(org, "national_certs"), Get(org, "national_certs"),
                            "national_cert", NATIONAL_CERT_ATTRIBUTES, org_id)
        c6 == ReadAndFixNtms(c4, Has(org, "networks"), Get(org, "networks"),
                             Has(org, "fqdns"), Get(org, "fqdns"), org_id, username, tie)
    IN Returning(UpdateRowStep(c6, org), org_id)

\* if org["sector_id"] == '': org["sector_id"] = None
EmptySectorToNone(org) ==
    IF org.sector_id = "" THEN [org EXCEPT !.sector_id = Null] ELSE org

\* the organisation is in the database
InDb(org_in_db, org_id) ==
    Has(org_in_db, "organisation_id") /\ org_in_db.organisation_id = org_id

\* mutant of NameProvided: None passes as a name
NameProvided_unless_empty(org) == Has(org, "name") /\ org.name # ""

\* not ('name' not in org or org['name'] is None or org['name'] == '')
NameProvided(org) == Has(org, "name") /\ org.name # Null /\ org.name # ""

_update_org(d, org_in, username, tie) ==
    IF ~Has(org_in, "organisation_id") THEN Raise(d, "KeyError")
    ELSE IF ~InDb(__db_query_org(d, org_in.organisation_id), org_in.organisation_id)
    THEN Raise(d, "CommitError")
    ELSE IF ~NameProvided(org_in) THEN Raise(d, "CommitError")
    ELSE IF ~Has(org_in, "sector_id") THEN Raise(d, "KeyError")
    ELSE UpdateLinked(d, EmptySectorToNone(org_in), org_in.organisation_id, username, tie)

(***************************************************************************)
(* _compare_org and _delete_org                                            *)
(***************************************************************************)
\* del anno['expires'] if anno.get('expires') == ''
DropEmptyExpires(annos) ==
    [i \in 1..Len(annos) |->
        IF annos[i].expires = "" THEN [annos[i] EXCEPT !.expires = Absent] ELSE annos[i]]

\* the keys _compare_org reads from both organisations
Comparable(org) ==
    /\ \A obj_type \in {"asns", "fqdns", "networks"} :
            /\ Has(org, obj_type)
            /\ \A i \in 1..Len(org[obj_type]) : Has(org[obj_type][i], "annotations")
    /\ Has(org, "annotations")

IgnoreEmptyExpires(org) ==
    [k \in DOMAIN org |->
        IF k \in {"asns", "fqdns", "networks"}
        THEN [i \in 1..Len(org[k]) |->
                [org[k][i] EXCEPT !.annotations = DropEmptyExpires(@)]]
        ELSE IF k = "annotations" THEN DropEmptyExpires(org[k])
        ELSE org[k]]

_compare_org(org_a, org_b) ==
    IF ~Comparable(org_a) \/ ~Comparable(org_b) THEN [err |-> "KeyError", equal |-> FALSE]
    ELSE [err |-> "", equal |-> IgnoreEmptyExpires(org_a) = IgnoreEmptyExpires(org_b)]

\* mutant of DeleteOrganisationRow: the statement removes no row
DeleteOrganisationRow_keeps_row(d, org_id) == d

\* DELETE FROM organisation WHERE organisation_id = %s
DeleteOrganisationRow(d, org_id) ==
    [d EXCEPT !.organisation = {o \in @ : o.organisation_id # org_id}]

\* the DELETE and: if affected_rows == 1: return org["organisation_id"]
\* (-1 stands for the None the function returns otherwise)
DeleteRowStep(c, org_id) ==
    IF c.err # "" THEN c
    ELSE [Ok(DeleteOrganisationRow(c.db, org_id)) EXCEPT !.ret =
            IF Cardinality({o \in c.db.organisation : o.organisation_id = org_id}) = 1
            THEN org_id ELSE -1]

\* mutant of DeleteUpTo: the organisation row is removed before anything
\* else
RECURSIVE DeleteUpTo(_, _, _, _, _)
DeleteUpTo_row_first(d, k, org_id_rm, username, tie) ==
    IF k = 1 THEN DeleteRowStep(Ok(d), org_id_rm)
    ELSE IF k = 2 THEN AsnsStep(DeleteRowStep(Ok(d), org_id_rm), TRUE, <<>>, "cut", org_id_rm,
                                username, tie)
    ELSE DeleteUpTo(d, k - 1, org_id_rm, username, tie)

\* what _delete_org has done once the comparison has passed and k calls
\* have returned: the ASNs, the contacts, (org_is is read) the networks, the
\* fqdns, the national certs, the annotations of the organisation, its row
DeleteUpTo(d, k, org_id_rm, username, tie) ==
    CASE k = 0 -> Ok(d)
      [] k = 1 -> AsnsStep(DeleteUpTo(d, 0, org_id_rm, username, tie), TRUE, <<>>, "cut",
                           org_id_rm, username, tie)
      [] k = 2 -> LeafnodesStep(DeleteUpTo(d, 1, org_id_rm, username, tie), TRUE, <<>>,
                                "contact", {}, org_id_rm)
      [] k = 3 -> NtmsStep(DeleteUpTo(d, 2, org_id_rm, username, tie), TRUE, <<>>,
                           NtmsAre(__db_query_org(DeleteUpTo(d, 2, org_id_rm, username, tie).db,
                                                  org_id_rm), "networks"),
                           "network", "address", org_id_rm, username, tie)
      [] k = 4 -> NtmsStep(DeleteUpTo(d, 3, org_id_rm, username, tie), TRUE, <<>>,
                           NtmsAre(__db_query_org(DeleteUpTo(d, 2, org_id_rm, username, tie).db,
                                                  org_id_rm), "fqdns"),
                           "fqdn", "fqdn", org_id_rm, username, tie)
      [] k = 5 -> LeafnodesStep(DeleteUpTo(d, 4, org_id_rm, username, tie), TRUE, <<>>,
                                "national_cert", {}, org_id_rm)
      [] k = 6 -> AnnotationsStep(DeleteUpTo(d, 5, org_id_rm, username, tie),
                                  [annotations |-> <<>>], "cut", org_id_rm, username, tie)
      [] k = 7 -> DeleteRowStep(DeleteUpTo(d, 6, org_id_rm, username, tie), org_id_rm)

\* the contexts _delete_org passes through, call by call
DeleteSteps(d, org_id_rm, username, tie) ==
    [k \in 1..7 |-> DeleteUpTo(d, k, org_id_rm, username, tie)]

DeleteLinked(d, org_id_rm, username, tie) == DeleteUpTo(d, 7, org_id_rm, username, tie)

\* if not _compare_org(org_in_db, org): raise CommitError(..)
DeleteCompared(d, same, org_id_rm, username, tie) ==
    IF same.err # "" THEN Raise(d, same.err)
    ELSE IF ~same.equal THEN Raise(d, "CommitError")
    ELSE DeleteLinked(d, org_id_rm, username, tie)

_delete_org(d, org, username, tie) ==
    IF ~Has(org, "organisation_id") THEN Raise(d, "KeyError")
    ELSE DeleteCompared(d, _compare_org(__db_query_org(d, org.organisation_id), org),
                        org.organisation_id, username, tie)

(***************************************************************************)
(* commit_pending_org_changes                                              *)
(***************************************************************************)
KNOWN_COMMANDS == {"create", "update", "delete"}

\* known_commands[command](org, username=..); an unknown key raises KeyError
Dispatch(command, d, org, username, tie) ==
    CASE command = "create" -> _create_org(d, org, username, tie)
      [] command = "update" -> _update_org(d, org, username, tie)
      [] command = "delete" -> _delete_org(d, org, username, tie)
      [] OTHER -> Raise(d, "KeyError")

\* results.append((command, known_commands[command](org, ..)))
Record(run, command, c) ==
    [db |-> c.db, err |-> c.err, dispatched |-> run.dispatched + 1,
     results |-> IF c.err = "" THEN Append(run.results, <<command, c.ret>>) ELSE run.results]

\* the loop over zip(commands, orgs); dispatched counts the handlers called
RECURSIVE RunCommands(_, _, _, _, _, _)
RunCommands(run, i, commands, orgs, username, tie) ==
    IF run.err # "" \/ i > Len(commands) \/ i > Len(orgs) THEN run
    ELSE RunCommands(Record(run, commands[i],
                            Dispatch(commands[i], run.db, orgs[i], username, tie)),
                     i + 1, commands, orgs, username, tie)

\* body and 'commands' in body and len(body['commands']) > 0 and ...
BodyComplete(body) ==
    /\ body.has_commands
    /\ Len(body.commands) > 0
    /\ body.has_orgs
    /\ Len(body.orgs) > 0
    /\ Len(body.commands) = Len(body.orgs)

\* mutant of CommandsKnown: only the first command is looked up before the loop
CommandsKnown_first_only(commands) == commands[1] \in KNOWN_COMMANDS

\* for command in commands: if command not in known_commands: ...
CommandsKnown(commands) == \A i \in 1..Len(commands) : commands[i] \in KNOWN_COMMANDS

Response(d, status, reason, err, results, dispatched) ==
    [db |-> d, status |-> status, reason |-> reason, err |-> err,
     results |-> results, dispatched |-> dispatched]

\* the except clauses and the return after the loop
Answer(run) ==
    IF run.err = "ValidationError"
    THEN Response(run.db, "422 Unprocessable Entity", "JSON validation failed",
                  run.err, <<>>, run.dispatched)
    ELSE IF run.err # ""
    THEN Response(run.db, "400 Bad Request", "Commit failed", run.err, <<>>, run.dispatched)
    ELSE Response(run.db, "200 OK", "", "", run.results, run.dispatched)

commit_pending_org_changes(d, body, username, tie) ==
    IF ~BodyComplete(body)
    THEN Response(d, "400 Bad Request", "Needs commands and orgs arrays of same length.",
                  "", <<>>, 0)
    ELSE IF ~CommandsKnown(body.commands)
    THEN Response(d, "400 Bad Request", "Unknown command.", "", <<>>, 0)
    ELSE Answer(RunCommands([db |-> d, err |-> "", dispatched |-> 0, results |-> <<>>],
                            1, body.commands, body.orgs, username, tie))

(***************************************************************************)
(* The requests of the model.                                              *)
(***************************************************************************)
CONTACT_1 == [firstname |-> "", lastname |-> "", tel |-> "", openpgp_fpr |-> "",
              email |-> "abuse@example.com", comment |-> ""]

NetworkEntry(comment, annos) ==
    [address |-> "10.0.0.0/8", comment |-> comment, annotations |-> annos]

FqdnEntry(comment, annos) ==
    [fqdn |-> "example.com", comment |-> comment, annotations |-> annos]

AsnEntry(asn, annos) == [asn |-> asn, annotations |-> annos]

ORG_EMPTY ==
    [name |-> "Org", sector_id |-> Null, comment |-> "", ripe_org_hdl |-> "",
     ti_handle |-> "", first_handle |-> "", annotations |-> <<>>, asns |-> <<>>,
     contacts |-> <<>>, national_certs |-> <<>>, networks |-> <<>>, fqdns |-> <<>>]

\* the aggregates clients send: a full one, the same one with other
\* annotations and comments, one with a business key twice, an empty one,
\* and three that fail at different depths
OrgCatalogue ==
    << [ORG_EMPTY EXCEPT !.annotations = <<TAG_1_NEVER>>,
                         !.asns = <<AsnEntry(1, <<TAG_1>>)>>,
                         !.contacts = <<CONTACT_1>>,
                         !.national_certs = <<[country_code |-> "DE", comment |-> ""]>>,
                         !.networks = <<NetworkEntry("", <<TAG_1_NEVER>>)>>,
                         !.fqdns = <<FqdnEntry("", <<TAG_2>>)>>],
       [ORG_EMPTY EXCEPT !.annotations = <<TAG_1_EXPIRE>>,
                         !.asns = <<AsnEntry(1, <<TAG_2>>)>>,
                         !.contacts = <<CONTACT_1, CONTACT_1>>,
                         !.networks = <<NetworkEntry("changed", <<TAG_1_EXPIRE>>)>>],
       [ORG_EMPTY EXCEPT !.asns = <<AsnEntry(1, <<TAG_1>>), AsnEntry(1, <<TAG_2>>)>>,
                         !.networks = <<NetworkEntry("", <<TAG_1>>),
                                        NetworkEntry("other", <<TAG_2>>)>>],
       ORG_EMPTY,
       [ORG_EMPTY EXCEPT !.name = ""],
       [ORG_EMPTY EXCEPT !.contacts = <<CONTACT_1>>,
                         !.national_certs = <<[country_code |-> "DE", comment |-> ""],
                                              [country_code |-> "DE"]>>],
       [ORG_EMPTY EXCEPT !.networks = <<[address |-> "10.0.0.0/8", comment |-> ""]>>],
       [ORG_EMPTY EXCEPT !.comment = Null],
       [k \in DOMAIN ORG_EMPTY \ {"name"} |-> ORG_EMPTY[k]],
       [ORG_EMPTY EXCEPT !.name = Null] >>

\* the aggregates that are sent with update as well
UpdateCatalogue == {n \in 1..Len(OrgCatalogue) : OrgCatalogue[n].comment # Null}

USERNAME == "user"

\* no two annotations of the catalogue differ in the condition only, so the
\* order of sorted() does not depend on the hashes
CatalogueTies == {TRUE}

\* an element of the orgs array: an aggregate of the catalogue (with the
\* organisation_id the client puts in, 0 for none) or the aggregate the client
\* read from the database before it sent the request, possibly edited
FromCatalogue(n, id) == [source |-> "catalogue", n |-> n, id |-> id, edit |-> "none"]

FromDb(id, edit) == [source |-> "db", n |-> 0, id |-> id, edit |-> edit]

\* expires "" becomes no expires and the other way round
ToggleEmptyExpires(annos) ==
    [i \in 1..Len(annos) |->
        IF annos[i].expires = "" THEN [annos[i] EXCEPT !.expires = Absent]
        ELSE IF annos[i].expires = Absent THEN [annos[i] EXCEPT !.expires = ""]
        ELSE annos[i]]

Edited(org, edit) ==
    CASE edit = "none" -> org
      [] edit = "expires" ->
            [k \in DOMAIN org |->
                IF k \in {"asns", "fqdns", "networks"}
                THEN [i \in 1..Len(org[k]) |->
                        [org[k][i] EXCEPT !.annotations = ToggleEmptyExpires(@)]]
                ELSE IF k = "annotations" THEN ToggleEmptyExpires(org[k])
                ELSE org[k]]
      [] edit = "comment" -> [org EXCEPT !.comment = "stale"]

Resolve(d, r) ==
    IF r.source = "catalogue"
    THEN IF r.id = 0 THEN OrgCatalogue[r.n]
         ELSE [organisation_id |-> r.id] @@ OrgCatalogue[r.n]
    ELSE Edited(__db_query_org(d, r.id), r.edit)

OrgIds(d) == {o.organisation_id : o \in d.organisation}

\* one command with the element of orgs that goes with it
CommandsWithOrg(d) ==
    {<<"create", FromCatalogue(n, 0)>> : n \in 1..Len(OrgCatalogue)}
    \cup {<<"update", FromCatalogue(n, id)>> : n \in UpdateCatalogue, id \in OrgIds(d)}
    \cup {<<"update", FromCatalogue(4, d.serial["organisation"] + 1)>>}
    \cup {<<"update", FromDb(id, "none")>> : id \in OrgIds(d)}
    \cup {<<"delete", FromDb(id, edit)>> : id \in OrgIds(d), edit \in {"none", "expires", "comment"}}
    \cup {<<"delete", FromCatalogue(4, d.serial["organisation"] + 1)>>}
    \cup {<<"mangle", FromCatalogue(4, 0)>>}

\* the commands that open a request of several commands, and those that follow
FirstCommands(d) ==
    {<<"create", FromCatalogue(1, 0)>>, <<"create", FromCatalogue(4, 0)>>}
    \cup {<<"delete", FromDb(id, "none")>> : id \in OrgIds(d)}

LaterCommands(d) ==
    {<<"create", FromCatalogue(5, 0)>>, <<"mangle", FromCatalogue(4, 0)>>}
    \cup {<<"delete", FromDb(id, "none")>> : id \in OrgIds(d)}

Request(pairs, has_commands, has_orgs, orgs_dropped) ==
    [has_commands |-> has_commands,
     commands |-> IF has_commands THEN [i \in 1..Len(pairs) |-> pairs[i][1]] ELSE <<>>,
     has_orgs |-> has_orgs,
     orgs |-> IF has_orgs THEN [i \in 1..(Len(pairs) - orgs_dropped) |-> pairs[i][2]]
              ELSE <<>>]

\* requests that lack a list, have empty lists or lists of different lengths
MalformedRequests ==
    LET p == <<"create", FromCatalogue(4, 0)>>
    IN {Request(<<p>>, FALSE, TRUE, 0), Request(<<p>>, TRUE, FALSE, 0),
        Request(<<p>>, FALSE, FALSE, 0), Request(<<>>, TRUE, TRUE, 0),
        Request(<<p>>, TRUE, TRUE, 1), Request(<<p, p>>, TRUE, TRUE, 1)}

Requests(d) ==
    {Request(<<p>>, TRUE, TRUE, 0) : p \in CommandsWithOrg(d)}
    \cup {Request(<<p>> \o rest, TRUE, TRUE, 0) :
            p \in FirstCommands(d),
            rest \in UNION {[1..k -> LaterCommands(d)] : k \in 1..(MaxBatch - 1)}}
    \cup MalformedRequests

Body(d, request) ==
    [request EXCEPT !.orgs = [i \in 1..Len(request.orgs) |-> Resolve(d, request.orgs[i])]]

Creates(request) == Cardinality({i \in 1..Len(request.commands) : request.commands[i] = "create"})

(***************************************************************************)
(* The connection pool and db_connection.  The pool is the one of          *)
(* psycopg2: getconn hands out an idle connection or, while fewer than     *)
(* MAX_POOL_CONNECTIONS are in use, a new one; putconn takes a connection  *)
(* back, closing it if asked to or if the pool keeps enough idle ones.     *)
(***************************************************************************)
Connections == 1..MAX_POOL_CONNECTIONS

\* pool.ThreadedConnectionPool(1, MAX_POOL_CONNECTIONS, dsn=dsn): one
\* connection is opened at once; others are the connections that other
\* threads hold
open_db_pool == [idle |-> {1}, used |-> {}, others |-> {}]

NoHandout == [pc |-> "idle", attempts |-> 0, connection |-> 0, yielded |-> FALSE,
              result |-> "", calls |-> 0]

ConnInit ==
    /\ contactdb_pool = open_db_pool
    /\ handout = NoHandout

\* mutant of putconn: the connection stays handed out
putconn_leaves_checked_out(p, connection, close) == p

\* contactdb_pool.putconn(connection, close=..)
putconn(p, connection, close) ==
    [p EXCEPT !.used = @ \ {connection},
              !.others = @ \ {connection},
              !.idle = IF close \/ @ # {} THEN @ ELSE {connection}]

\* the exception getconn raises when it has no idle connection to hand out:
\* the pool is exhausted, or the server does not accept a new connection
GetConnError(p) ==
    IF Cardinality(p.used) = MAX_POOL_CONNECTIONS THEN "PoolError" ELSE "OperationalError"

\* the connections getconn may hand out: an idle one, or a new one
Obtainable(p) ==
    IF p.idle # {} THEN p.idle
    ELSE IF Cardinality(p.used) = MAX_POOL_CONNECTIONS THEN {}
    ELSE {CHOOSE c \in Connections \ p.used : \A o \in Connections \ p.used : c <= o}

\* the call is over: with the with-block done ("ok"), with the exception of
\* the with-block, or with the exception db_connection raised itself
Ended(h, result) ==
    [h EXCEPT !.pc = "idle", !.connection = 0, !.result = result, !.calls = @ + 1]

NoRequest == [request |-> Request(<<>>, FALSE, FALSE, 0), status |-> "", reason |-> "",
              err |-> "", results |-> <<>>, dispatched |-> 0]

EngineInit ==
    /\ db = EmptyDb
    /\ last = NoRequest
    /\ ConnInit

\* the database and the answer after the request
Answered(request, r) ==
    /\ db' = r.db
    /\ last' = [request |-> request, status |-> r.status, reason |-> r.reason,
                err |-> r.err, results |-> r.results, dispatched |-> r.dispatched]

\* one POST to /org/manual/commit
Commit ==
    /\ \A t \in NtmTables \cup LeafTables : db.serial[t] <= MaxSerial
    /\ Len(db.audit_log) <= MaxAudit
    /\ \E request \in Requests(db), tie \in CatalogueTies :
        /\ db.serial["organisation"] + Creates(request) <= MaxOrgs
        /\ Answered(request,
                    commit_pending_org_changes(db, Body(db, request), USERNAME, tie))

(***************************************************************************)
(* Specification of the diff alone: the arguments are drawn in the initial *)
(* state and CallDiff applies the function to them.                        *)
(***************************************************************************)
NotCalled == [called |-> FALSE, warned |-> FALSE,
              add |-> <<>>, remove |-> <<>>, change |-> <<>>]

\* a thread of the server that serves no request
Idle == [pc |-> "idle", n |-> 0, id |-> 0, are |-> [t \in NtmTables |-> <<>>],
         table |-> "network", i |-> 0, added |-> {}, new_entry_id |-> 0,
         err |-> "", status |-> ""]

Threads == 1..MaxThreads

NoThreads ==
    /\ batches = [t \in Threads |-> Idle]
    /\ finished = <<>>
    /\ start_db = EmptyDb

DiffInit ==
    /\ EngineInit
    /\ NoThreads
    /\ annos_are \in AnnoLists
    /\ annos_should \in AnnoLists
    /\ detect_flag \in BOOLEAN
    /\ diff_out = NotCalled

CallDiff ==
    /\ ~diff_out.called
    /\ \E tie \in BOOLEAN :
        LET d == _annotation_diff(annos_are, annos_should, detect_flag, tie)
        IN diff_out' = [called |-> TRUE,
                        warned |-> DiffWarns(annos_are, annos_should),
                        add |-> d.add, remove |-> d.remove, change |-> d.change]
    /\ UNCHANGED <<annos_are, annos_should, detect_flag, db, last, poolvars, connvars>>

\* an organisation that holds the current annotations, as _create_org stores
\* them
SeedAnnotations ==
    /\ db = EmptyDb
    /\ db' = _create_org(EmptyDb, [ORG_EMPTY EXCEPT !.annotations = annos_are],
                         USERNAME, TRUE).db
    /\ UNCHANGED <<diffvars, last, poolvars, connvars>>

\* __fix_annotations_to_table(annos_should, mode, "organisation",
\* "organisation_id", 1, username): mode 'cut' is the one that detects
\* modifications
CallFix ==
    /\ db.organisation # {}
    /\ \E tie \in BOOLEAN :
        db' = __fix_annotations_to_table(db, annos_should,
                                         IF detect_flag THEN "cut" ELSE "add",
                                         "organisation", 1, USERNAME, tie)
    /\ UNCHANGED <<diffvars, last, poolvars, connvars>>

DiffNext == CallDiff

vars == <<diffvars, db, last, poolvars, connvars>>

DiffSpec == DiffInit /\ [][DiffNext]_vars

\* the reconciliation of the annotations of one organisation, for the same
\* arguments: the current annotations are stored, then the desired ones are
\* applied
ReconcileNext == SeedAnnotations \/ CallFix

ReconcileSpec == DiffInit /\ [][ReconcileNext]_vars

(***************************************************************************)
(* Specification of the engine: requests to /org/manual/commit, one after  *)
(* the other.                                                              *)
(***************************************************************************)
Init ==
    /\ EngineInit
    /\ NoThreads
    /\ annos_are = <<>>
    /\ annos_should = <<>>
    /\ detect_flag = FALSE
    /\ diff_out = NotCalled

Next == Commit /\ UNCHANGED <<diffvars, poolvars, connvars>>

Spec == Init /\ [][Next]_vars

(***************************************************************************)
(* Specification of concurrent requests: the server takes every statement  *)
(* to a connection of the pool and commits it there (_db_query,            *)
(* _db_manipulate), so the statements of two requests that are served by   *)
(* two threads interleave. Each thread serves one request with one update; *)
(* a step is one call of _update_org, and the loop over the missing        *)
(* entries of __fix_ntms_to_org is split between the INSERT of the row and *)
(* the calls that annotate and link it.                                    *)
(***************************************************************************)
NtmColumn == [network |-> "address", fqdn |-> "fqdn"]

NtmKey == [network |-> "networks", fqdn |-> "fqdns"]

\* the aggregates of the concurrent updates
PoolCatalogue == {1, 2, 4}

\* the database after create with the n-th aggregate of the catalogue
Created(d, n) ==
    commit_pending_org_changes(
        d, Body(d, Request(<< <<"create", FromCatalogue(n, 0)>> >>, TRUE, TRUE, 0)),
        USERNAME, TRUE).db

\* two organisations are stored when the threads start
StartDbs == {Created(Created(EmptyDb, a), 4) : a \in {1, 4}}

PoolInit ==
    /\ ConnInit
    /\ db \in StartDbs
    /\ start_db = db
    /\ last = NoRequest
    /\ batches = [t \in Threads |-> Idle]
    /\ finished = <<>>
    /\ annos_are = <<>>
    /\ annos_should = <<>>
    /\ detect_flag = FALSE
    /\ diff_out = NotCalled

\* org of _update_org
Desired(b) == EmptySectorToNone([organisation_id |-> b.id] @@ OrgCatalogue[b.n])

\* ntms_should of the call of __fix_ntms_to_org the thread is in
Should(b) == Desired(b)[NtmKey[b.table]]

Superfluous(b) ==
    SelectSeq(b.are[b.table],
              LAMBDA n : n[NtmColumn[b.table]] \notin ValuesOf(Should(b), NtmColumn[b.table]))

Missing(b) ==
    MissingEntries(Should(b), ValuesOf(b.are[b.table], NtmColumn[b.table]), NtmColumn[b.table])

Existing(b) ==
    SelectSeq(b.are[b.table],
              LAMBDA n : n[NtmColumn[b.table]] \in ValuesOf(Should(b), NtmColumn[b.table]))

\* __get_name_to_object finds no row: [1][0] raises IndexError
RowGone(d, table, id) == \A n \in d.ntm[table] : n.id # id

\* the first entry whose row is gone, Len(entries) + 1 if there is none
FirstGone(d, table, entries) ==
    LET gone == {k \in 1..Len(entries) : RowGone(d, table, entries[k][table \o "_id"])}
    IN IF gone = {} THEN Len(entries) + 1 ELSE CHOOSE k \in gone : \A j \in gone : k <= j

\* the thread goes on with b2
Advance(t, b2) ==
    /\ batches' = [batches EXCEPT ![t] = b2]
    /\ UNCHANGED finished

\* except Exception: response.status = HTTP_BAD_REQUEST
Fail(t, err) ==
    /\ batches' = [batches EXCEPT ![t] = [@ EXCEPT !.pc = "done", !.err = err,
                                                  !.status = "400 Bad Request"]]
    /\ finished' = Append(finished, t)

\* the next missing entry whose value was not added yet, or the existing ones
ToMissing(b) ==
    LET rest == {j \in b.i..Len(Missing(b)) : Missing(b)[j][NtmColumn[b.table]] \notin b.added}
    IN IF rest = {} THEN [b EXCEPT !.pc = "existing"]
       ELSE [b EXCEPT !.pc = "insert", !.i = CHOOSE j \in rest : \A k \in rest : j <= k]

\* the request comes in and _update_org makes its checks
Receive(t) ==
    /\ batches[t].pc = "idle"
    /\ \E n \in PoolCatalogue, id \in OrgIds(db) :
        IF /\ InDb(__db_query_org(db, id), id)
           /\ NameProvided([organisation_id |-> id] @@ OrgCatalogue[n])
        THEN Advance(t, [batches[t] EXCEPT !.pc = "annotations", !.n = n, !.id = id])
        ELSE Fail(t, "CommitError")
    /\ UNCHANGED <<db, last, start_db, diffvars, connvars>>

FixAnnotations(t) ==
    /\ batches[t].pc = "annotations"
    /\ db' = __fix_annotations_to_table(db, Desired(batches[t]).annotations, "cut",
                                        "organisation", batches[t].id, USERNAME, TRUE)
    /\ Advance(t, [batches[t] EXCEPT !.pc = "asns"])
    /\ UNCHANGED <<last, start_db, diffvars, connvars>>

FixAsns(t) ==
    /\ batches[t].pc = "asns"
    /\ db' = __fix_asns_to_org(db, Desired(batches[t]).asns, "cut", batches[t].id,
                               USERNAME, TRUE)
    /\ Advance(t, [batches[t] EXCEPT !.pc = "contacts"])
    /\ UNCHANGED <<last, start_db, diffvars, connvars>>

FixContacts(t) ==
    /\ batches[t].pc = "contacts"
    /\ LET c == __fix_leafnodes_to_org(db, Desired(batches[t]).contacts, "contact",
                                       CONTACT_ATTRIBUTES, batches[t].id)
       IN /\ db' = c.db
          /\ IF c.err # "" THEN Fail(t, c.err)
             ELSE Advance(t, [batches[t] EXCEPT !.pc = "national_certs"])
    /\ UNCHANGED <<last, start_db, diffvars, connvars>>

FixNationalCerts(t) ==
    /\ batches[t].pc = "national_certs"
    /\ LET c == __fix_leafnodes_to_org(db, Desired(batches[t]).national_certs,
                                       "national_cert", NATIONAL_CERT_ATTRIBUTES,
                                       batches[t].id)
       IN /\ db' = c.db
          /\ IF c.err # "" THEN Fail(t, c.err)
             ELSE Advance(t, [batches[t] EXCEPT !.pc = "read"])
    /\ UNCHANGED <<last, start_db, diffvars, connvars>>

\* org_so_far = __db_query_org(org_id, ""): what both calls of
\* __fix_ntms_to_org take for the linked entries
ReadOrgSoFar(t) ==
    /\ batches[t].pc = "read"
    /\ Advance(t, [batches[t] EXCEPT
            !.pc = "unlink", !.table = "network",
            !.are = [network |-> NtmsAre(__db_query_org(db, batches[t].id), "networks"),
                     fqdn |-> NtmsAre(__db_query_org(db, batches[t].id), "fqdns")]])
    /\ UNCHANGED <<db, last, start_db, diffvars, connvars>>

\* the loop over the superfluous entries, up to the first whose row is gone
Unlink(t) ==
    /\ batches[t].pc = "unlink"
    /\ LET k == FirstGone(db, batches[t].table, Superfluous(batches[t]))
       IN /\ db' = SuperfluousLoop(db, 1, SubSeq(Superfluous(batches[t]), 1, k - 1),
                                   batches[t].table, batches[t].id, USERNAME, TRUE)
          /\ IF k <= Len(Superfluous(batches[t])) THEN Fail(t, "IndexError")
             ELSE Advance(t, ToMissing([batches[t] EXCEPT !.i = 1, !.added = {}]))
    /\ UNCHANGED <<last, start_db, diffvars, connvars>>

\* INSERT INTO {0} ({1}, comment) VALUES (..) RETURNING {2}
InsertMissing(t) ==
    /\ batches[t].pc = "insert"
    /\ db' = InsertNtm(db, batches[t].table,
                       Missing(batches[t])[batches[t].i][NtmColumn[batches[t].table]],
                       Missing(batches[t])[batches[t].i].comment)
    /\ Advance(t, [batches[t] EXCEPT !.pc = "link",
                                     !.new_entry_id = db.serial[batches[t].table] + 1])
    /\ UNCHANGED <<last, start_db, diffvars, connvars>>

\* INSERT INTO organisation_to_{0} (organisation_id, {1}) VALUES (%s, %s)
LinkNtm(d, table, org_id, entry_id) ==
    [d EXCEPT !.organisation_to_ntm[table] =
        @ \cup {[organisation_id |-> org_id, id |-> entry_id]}]

\* the annotations of the new row and its link to the organisation
AnnotateAndLink(t) ==
    /\ batches[t].pc = "link"
    /\ IF RowGone(db, batches[t].table, batches[t].new_entry_id)
       THEN UNCHANGED db /\ Fail(t, "IndexError")
       ELSE /\ db' = LinkNtm(__fix_annotations_to_table(
                                db, Missing(batches[t])[batches[t].i].annotations, "add",
                                batches[t].table, batches[t].new_entry_id, USERNAME, TRUE),
                             batches[t].table, batches[t].id, batches[t].new_entry_id)
            /\ Advance(t, ToMissing([batches[t] EXCEPT
                    !.i = @ + 1,
                    !.added = @ \cup {Missing(batches[t])[batches[t].i][NtmColumn[batches[t].table]]}]))
    /\ UNCHANGED <<last, start_db, diffvars, connvars>>

\* the loop over the existing entries, up to the first whose row is gone
FixExisting(t) ==
    /\ batches[t].pc = "existing"
    /\ LET k == FirstGone(db, batches[t].table, Existing(batches[t]))
           c == ExistingLoop(Ok(db), 1, SubSeq(Existing(batches[t]), 1, k - 1),
                             Should(batches[t]), batches[t].table,
                             NtmColumn[batches[t].table], USERNAME, TRUE)
       IN /\ db' = c.db
          /\ IF c.err # "" THEN Fail(t, c.err)
             ELSE IF k <= Len(Existing(batches[t])) THEN Fail(t, "IndexError")
             ELSE Advance(t, [batches[t] EXCEPT !.pc = "prune"])
    /\ UNCHANGED <<last, start_db, diffvars, connvars>>

\* delete entries that are not linked anymore; the fqdns come after the networks
Prune(t) ==
    /\ batches[t].pc = "prune"
    /\ db' = PruneNtm(db, batches[t].table)
    /\ Advance(t, IF batches[t].table = "network"
                  THEN [batches[t] EXCEPT !.pc = "unlink", !.table = "fqdn"]
                  ELSE [batches[t] EXCEPT !.pc = "row"])
    /\ UNCHANGED <<last, start_db, diffvars, connvars>>

\* UPDATE organisation SET .. and the response of the request
UpdateRow(t) ==
    /\ batches[t].pc = "row"
    /\ db' = UpdateOrganisationRow(db, Desired(batches[t]))
    /\ batches' = [batches EXCEPT ![t] = [@ EXCEPT !.pc = "done", !.status = "200 OK"]]
    /\ finished' = Append(finished, t)
    /\ UNCHANGED <<last, start_db, diffvars, connvars>>

PoolNext ==
    \E t \in Threads :
        \/ Receive(t)
        \/ FixAnnotations(t)
        \/ FixAsns(t)
        \/ FixContacts(t)
        \/ FixNationalCerts(t)
        \/ ReadOrgSoFar(t)
        \/ Unlink(t)
        \/ InsertMissing(t)
        \/ AnnotateAndLink(t)
        \/ FixExisting(t)
        \/ Prune(t)
        \/ UpdateRow(t)

PoolSpec == PoolInit /\ [][PoolNext]_vars

(***************************************************************************)
(* Specification of db_connection: one caller enters the context manager   *)
(* again and again while other threads take and give back connections.     *)
(* Whether a connection answers "SELECT 1;", whether the server accepts a  *)
(* new connection and whether the with-block raises is up to the           *)
(* environment.                                                            *)
(***************************************************************************)
\* connection = contactdb_pool.getconn(), in the first or a later round of
\* for _ in range(MAX_POOL_CONNECTIONS + 1); an exception of getconn leaves
\* db_connection
GetConn ==
    /\ \/ handout.pc = "idle" /\ handout.calls < MaxCalls
       \/ handout.pc = "loop"
    /\ \/ \E c \in Obtainable(contactdb_pool) :
            /\ contactdb_pool' = [contactdb_pool EXCEPT !.idle = @ \ {c},
                                                        !.used = @ \cup {c}]
            /\ handout' = [handout EXCEPT
                            !.pc = "check",
                            !.attempts = IF handout.pc = "idle" THEN 1 ELSE @ + 1,
                            !.connection = c,
                            !.yielded = FALSE,
                            !.result = ""]
       \/ /\ contactdb_pool.idle = {}
          /\ contactdb_pool' = contactdb_pool
          /\ handout' = Ended([handout EXCEPT
                                !.attempts = IF handout.pc = "idle" THEN 1 ELSE @ + 1,
                                !.yielded = FALSE],
                              GetConnError(contactdb_pool))
    /\ UNCHANGED <<diffvars, db, last, poolvars>>

\* connection.cursor().execute("SELECT 1;"), break, yield connection
HealthCheckPasses ==
    /\ handout.pc = "check"
    /\ handout' = [handout EXCEPT !.pc = "yielded", !.yielded = TRUE]
    /\ UNCHANGED <<contactdb_pool, diffvars, db, last, poolvars>>

\* except psycopg2.Error: contactdb_pool.putconn(connection, close=True);
\* after the last round: raise RuntimeError("Cannot get a healthy connection")
HealthCheckFails ==
    /\ handout.pc = "check"
    /\ contactdb_pool' = putconn(contactdb_pool, handout.connection, TRUE)
    /\ handout' = IF handout.attempts = MAX_POOL_CONNECTIONS + 1
                  THEN Ended(handout, "RuntimeError")
                  ELSE [handout EXCEPT !.pc = "loop", !.connection = 0]
    /\ UNCHANGED <<diffvars, db, last, poolvars>>

\* the with-block ends or raises; finally: contactdb_pool.putconn(connection)
BlockEnds ==
    /\ handout.pc = "yielded"
    /\ contactdb_pool' = putconn(contactdb_pool, handout.connection, FALSE)
    /\ \E result \in {"ok", "Error"} : handout' = Ended(handout, result)
    /\ UNCHANGED <<diffvars, db, last, poolvars>>

\* another thread is handed a connection or gives one back
OtherThread ==
    /\ \/ \E c \in Obtainable(contactdb_pool) :
            contactdb_pool' = [contactdb_pool EXCEPT !.idle = @ \ {c},
                                                     !.used = @ \cup {c},
                                                     !.others = @ \cup {c}]
       \/ \E c \in contactdb_pool.others, close \in BOOLEAN :
            contactdb_pool' = putconn(contactdb_pool, c, close)
    /\ UNCHANGED <<handout, diffvars, db, last, poolvars>>

ConnNext ==
    \/ GetConn
    \/ HealthCheckPasses
    \/ HealthCheckFails
    \/ BlockEnds
    \/ OtherThread

ConnSpec == Init /\ [][ConnNext]_vars

(***************************************************************************)
(* Properties of the engine (checked under Spec)                           *)
(***************************************************************************)
\* the tables without the id sequences
Tables(d) == [k \in DOMAIN d \ {"serial"} |-> d[k]]

Succeeded(l) == l.status = "200 OK"

\* the request l holds exactly this one command
OnlyCommand(l, command) ==
    /\ l.request.has_commands /\ l.request.has_orgs
    /\ Len(l.request.commands) = 1 /\ Len(l.request.orgs) = 1
    /\ l.request.commands[1] = command

\* C1: when a command of a batch raises, every effect of the batch on the
\* tables is undone: the tables are as they were before the batch.
C1_AtomicBatch ==
    [][~Succeeded(last') => Tables(db') = Tables(db)]_vars

\* the request lacks a list, has an empty list, lists of different lengths
\* or a command that is not create, update or delete
Rejectable(request) ==
    \/ ~request.has_commands \/ ~request.has_orgs
    \/ Len(request.commands) = 0 \/ Len(request.orgs) = 0
    \/ Len(request.commands) # Len(request.orgs)
    \/ \E i \in 1..Len(request.commands) :
            request.commands[i] \notin {"create", "update", "delete"}

\* C2: a request whose lists are missing, empty or of different lengths, or
\* that holds an unknown command at any position, is answered 400 without a
\* handler being called and without a change to the database.
C2_RejectsWithoutTouchingStorage ==
    [][Rejectable(last'.request) =>
        /\ last'.status = "400 Bad Request"
        /\ last'.dispatched = 0
        /\ db' = db]_vars

C2_Witness ==
    /\ last.request.has_commands
    /\ last.request.commands = <<"create", "mangle">>
    /\ Len(last.request.orgs) = 2
    /\ last.status = "400 Bad Request"
    /\ last.dispatched = 0
    /\ db.organisation # {}

\* the request l is an update with the aggregate as it was read from the
\* database, nothing edited
ReadBackUpdate(l) ==
    /\ OnlyCommand(l, "update")
    /\ l.request.orgs[1].source = "db"
    /\ l.request.orgs[1].edit = "none"

\* the contacts or national certs without their surrogate ids
LeafValues(d, table) ==
    {[organisation_id |-> r.organisation_id, attrs |-> r.attrs] : r \in d.leaf[table]}

\* C3 as stated: an update with the aggregate read back, sent after a
\* request that completed, appends no audit entry and leaves every row as it
\* was, the surrogate ids of the contacts and national certs included.
C3_ReadBackUpdateKeepsEveryRow ==
    [][Succeeded(last) /\ ReadBackUpdate(last') =>
        /\ Succeeded(last')
        /\ Tables(db') = Tables(db)]_vars

\* C3: an update with the aggregate read back, sent after a request that
\* completed, appends no audit entry and leaves the organisation, the
\* annotations, the ASN links and the network and fqdn rows and links as they
\* were; the contacts and national certs keep their values, and those of the
\* organisation get new surrogate ids.
C3_ReadBackUpdateKeepsValues ==
    [][Succeeded(last) /\ ReadBackUpdate(last') =>
        /\ Succeeded(last')
        /\ db'.audit_log = db.audit_log
        /\ db'.organisation = db.organisation
        /\ db'.annotation = db.annotation
        /\ db'.organisation_to_asn = db.organisation_to_asn
        /\ db'.ntm = db.ntm
        /\ db'.organisation_to_ntm = db.organisation_to_ntm
        /\ \A table \in NtmTables : db'.serial[table] = db.serial[table]
        /\ \A table \in LeafTables :
            /\ LeafValues(db', table) = LeafValues(db, table)
            /\ Cardinality(db'.leaf[table]) = Cardinality(db.leaf[table])
            /\ \A r \in db'.leaf[table] :
                    r.organisation_id = last'.request.orgs[1].id => r.id > db.serial[table]]_vars

C3_Witness ==
    /\ ReadBackUpdate(last)
    /\ Succeeded(last)
    /\ \E r \in db.leaf["contact"] : r.id = 2
    /\ \E r \in db.leaf["national_cert"] : r.id = 2
    /\ db.ntm["network"] # {} /\ db.ntm["fqdn"] # {}
    /\ db.organisation_to_asn # {}
    /\ db.annotation["network"] # <<>> /\ db.annotation["autonomous_system"] # <<>>
    /\ db.audit_log # <<>>

\* the request l is one create or one update with an aggregate of the
\* catalogue, and it completed
SyncCompleted(l) ==
    /\ OnlyCommand(l, "create") \/ OnlyCommand(l, "update")
    /\ l.request.orgs[1].source = "catalogue"
    /\ Succeeded(l)

StoredAnnotations(d, table, key) ==
    {r.annotation : r \in {x \in Range(d.annotation[table]) : x.key = key}}

AnnotationSet(entry) == {Json(a) : a \in Range(entry.annotations)}

LinkedNtms(d, table, org_id) ==
    {n \in d.ntm[table] :
        [organisation_id |-> org_id, id |-> n.id] \in d.organisation_to_ntm[table]}

LinkedAsns(d, org_id) ==
    {l.asn : l \in {x \in d.organisation_to_asn : x.organisation_id = org_id}}

KeysOf(entries, column) == {entries[i][column] : i \in 1..Len(entries)}

With(entries, column, v) == {i \in 1..Len(entries) : entries[i][column] = v}

FirstWith(entries, column, v) ==
    entries[CHOOSE i \in With(entries, column, v) : \A j \in With(entries, column, v) : i <= j]

LastWith(entries, column, v) ==
    entries[CHOOSE i \in With(entries, column, v) : \A j \in With(entries, column, v) : i >= j]

NtmKinds == {<<"network", "networks", "address">>, <<"fqdn", "fqdns", "fqdn">>}

\* the linked keys are the desired keys
LinksConverged(d2, org, org_id) ==
    /\ \A kind \in NtmKinds :
        /\ {n.value : n \in LinkedNtms(d2, kind[1], org_id)} = KeysOf(org[kind[2]], kind[3])
        /\ Cardinality(LinkedNtms(d2, kind[1], org_id))
                = Cardinality(KeysOf(org[kind[2]], kind[3]))
    /\ LinkedAsns(d2, org_id) = KeysOf(org.asns, "asn")

\* C4 as stated: after a completed create or update the linked keys are the
\* desired keys, and the comment and the annotations stored for a linked
\* network, fqdn or ASN are those of a desired entry with that key.
C4_StoredEqualsDesiredEntry ==
    [][SyncCompleted(last') =>
        LET org == Resolve(db, last'.request.orgs[1])
            org_id == last'.results[1][2]
        IN /\ LinksConverged(db', org, org_id)
           /\ \A kind \in NtmKinds : \A n \in LinkedNtms(db', kind[1], org_id) :
                \E i \in With(org[kind[2]], kind[3], n.value) :
                    /\ n.comment = org[kind[2]][i].comment
                    /\ StoredAnnotations(db', kind[1], n.id) = AnnotationSet(org[kind[2]][i])
           /\ \A asn \in LinkedAsns(db', org_id) :
                \E i \in With(org.asns, "asn", asn) :
                    StoredAnnotations(db', "autonomous_system", asn)
                        = AnnotationSet(org.asns[i])]_vars

\* C4: after a completed create or update the linked keys are the desired
\* keys; a linked network or fqdn has the comment and the annotations of the
\* first desired entry with its key; an ASN has, after an update, the
\* annotations of the last desired entry with its number and, after a create,
\* the annotations it had before together with those of every desired entry
\* with its number.
C4_Convergence ==
    [][SyncCompleted(last') =>
        LET org == Resolve(db, last'.request.orgs[1])
            org_id == last'.results[1][2]
        IN /\ LinksConverged(db', org, org_id)
           /\ \A kind \in NtmKinds : \A n \in LinkedNtms(db', kind[1], org_id) :
                LET entry == FirstWith(org[kind[2]], kind[3], n.value)
                IN /\ n.comment = entry.comment
                   /\ StoredAnnotations(db', kind[1], n.id) = AnnotationSet(entry)
           /\ \A asn \in LinkedAsns(db', org_id) :
                StoredAnnotations(db', "autonomous_system", asn) =
                    IF OnlyCommand(last', "update")
                    THEN AnnotationSet(LastWith(org.asns, "asn", asn))
                    ELSE StoredAnnotations(db, "autonomous_system", asn) \cup
                         UNION {AnnotationSet(org.asns[i]) : i \in With(org.asns, "asn", asn)}]_vars

C4_Witness ==
    /\ SyncCompleted(last)
    /\ OnlyCommand(last, "update")
    /\ last.request.orgs[1].n = 2
    /\ \E n \in LinkedNtms(db, "network", last.request.orgs[1].id) :
            /\ n.comment = "changed"
            /\ StoredAnnotations(db, "network", n.id) = {TAG_1_EXPIRE}
    /\ StoredAnnotations(db, "autonomous_system", 1) = {TAG_2}
    /\ LinkedNtms(db, "fqdn", last.request.orgs[1].id) = {}

\* the desired ASNs hold a number twice, with different annotations
DuplicateAsn(org, asn) ==
    \E i, j \in With(org.asns, "asn", asn) :
        i # j /\ AnnotationSet(org.asns[i]) # AnnotationSet(org.asns[j])

\* C5: when the desired ASNs hold a number twice with different annotations,
\* the request completes and the annotations stored for the number are those
\* of the first entry (for a create: if the number had none before).
C5_FirstAsnWins ==
    [][/\ OnlyCommand(last', "create") \/ OnlyCommand(last', "update")
       /\ last'.request.orgs[1].source = "catalogue"
       /\ \/ OnlyCommand(last', "update") /\ last'.request.orgs[1].id \in OrgIds(db)
          \/ OnlyCommand(last', "create")
                /\ StoredAnnotations(db, "autonomous_system", 1) = {}
       /\ DuplicateAsn(Resolve(db, last'.request.orgs[1]), 1)
       => /\ Succeeded(last')
          /\ StoredAnnotations(db', "autonomous_system", 1)
                = AnnotationSet(FirstWith(Resolve(db, last'.request.orgs[1]).asns, "asn", 1))]_vars

\* the aggregate with every expires "" taken out of its annotations
WithoutEmptyExpires(org) ==
    LET strip(annos) == [i \in 1..Len(annos) |->
                            IF annos[i].expires = ""
                            THEN [annos[i] EXCEPT !.expires = Absent] ELSE annos[i]]
    IN [k \in DOMAIN org |->
            IF k \in {"asns", "fqdns", "networks"}
            THEN [i \in 1..Len(org[k]) |-> [org[k][i] EXCEPT !.annotations = strip(@)]]
            ELSE IF k = "annotations" THEN strip(org[k])
            ELSE org[k]]

\* C6: a delete completes when the aggregate of the request and the stored
\* one differ at most in expires "" against no expires; for every other
\* difference it fails with CommitError and the database is unchanged.
C6_DeleteSafetyCheck ==
    [][OnlyCommand(last', "delete") =>
        LET org == Resolve(db, last'.request.orgs[1])
            stored == __db_query_org(db, org.organisation_id)
        IN IF stored # <<>> /\ WithoutEmptyExpires(org) = WithoutEmptyExpires(stored)
           THEN Succeeded(last') /\ org.organisation_id \notin OrgIds(db')
           ELSE last'.err = "CommitError" /\ db' = db]_vars

Orphans(d, table) ==
    {n \in d.ntm[table] : \A l \in d.organisation_to_ntm[table] : l.id # n.id}

\* C7: after every request that completed, no network row and no fqdn row
\* is without a join record.
C7_PruneOnZeroReferences ==
    Succeeded(last) => \A table \in NtmTables : Orphans(db, table) = {}

C7_Witness ==
    /\ Succeeded(last)
    /\ OnlyCommand(last, "update")
    /\ db.serial["network"] >= 1
    /\ db.serial["fqdn"] >= 1
    /\ db.ntm["network"] = {}
    /\ db.ntm["fqdn"] = {}
    /\ db.organisation # {}

(***************************************************************************)
(* Properties of _annotation_diff (checked under DiffSpec)                 *)
(***************************************************************************)
AreOnly == Range(annos_are) \ Range(annos_should)

ShouldOnly == Range(annos_should) \ Range(annos_are)

TotalAnnotations == Len(annos_are) + Len(annos_should)

\* some current-only annotation equals a desired-only one but for expires
PairExists == \E a \in AreOnly, b \in ShouldOnly : anno_never(a) = anno_never(b)

LoggedAs(entries, l) == {i \in 1..Len(entries) : entries[i].log = l}

DataOf(entries) == {entries[i].data : i \in 1..Len(entries)}

\* C8: diffing a collection against itself gives empty add, remove and
\* change, for both values of detect_modifications and also when the two
\* lists hold 20 or more annotations in total.
C8_DiffOfEqualIsEmpty ==
    (diff_out.called /\ annos_are = annos_should) =>
        /\ diff_out.add = <<>>
        /\ diff_out.remove = <<>>
        /\ diff_out.change = <<>>

C8_Witness ==
    /\ diff_out.called
    /\ annos_are = annos_should
    /\ detect_flag
    /\ TotalAnnotations >= ANNOTATION_DIFF_MAX
    /\ Cardinality(Range(annos_are)) >= 2
    /\ diff_out.add = <<>>

\* C9: with detection switched off, or switched on while no current-only
\* annotation equals a desired-only one but for expires, add holds exactly
\* the desired annotations that are not in current, remove exactly the
\* current annotations that are not in desired, every entry has log = true
\* and change is empty.
C9_PlainDiff ==
    (diff_out.called /\ (~detect_flag \/ ~PairExists)) =>
        /\ DataOf(diff_out.add) = ShouldOnly
        /\ DataOf(diff_out.remove) = AreOnly
        /\ LoggedAs(diff_out.add, FALSE) = {}
        /\ LoggedAs(diff_out.remove, FALSE) = {}
        /\ diff_out.change = <<>>

C9_Witness ==
    /\ diff_out.called
    /\ detect_flag
    /\ ~diff_out.warned
    /\ ~PairExists
    /\ INHIBITION_EXPIRE \in DataOf(diff_out.add)
    /\ TAG_1_EXPIRE \in DataOf(diff_out.remove)

\* C10: with detection on and fewer than 20 annotations in total, every
\* current-only annotation that equals a desired-only one but for expires
\* gives a change entry for a pair of that kind, whose before is in remove
\* and whose after is in add, both with log = false; and there are as many
\* change entries as add entries with log = false and as remove entries
\* with log = false.
C10_ModificationPairing ==
    (diff_out.called /\ detect_flag /\ TotalAnnotations < ANNOTATION_DIFF_MAX) =>
        /\ \A a \in AreOnly, b \in ShouldOnly :
              anno_never(a) = anno_never(b) =>
                \E i \in 1..Len(diff_out.change) :
                    LET c == diff_out.change[i]
                    IN /\ c.before \in AreOnly
                       /\ c.after \in ShouldOnly
                       /\ anno_never(c.before) = anno_never(a)
                       /\ anno_never(c.after) = anno_never(a)
                       /\ InList(LogEntry(c.before, FALSE), diff_out.remove)
                       /\ InList(LogEntry(c.after, FALSE), diff_out.add)
        /\ Len(diff_out.change) = Cardinality(LoggedAs(diff_out.add, FALSE))
        /\ Len(diff_out.change) = Cardinality(LoggedAs(diff_out.remove, FALSE))

C10_Witness ==
    /\ diff_out.called
    /\ detect_flag
    /\ annos_are = <<TAG_1_NEVER>>
    /\ annos_should = <<TAG_1_EXPIRE>>
    /\ diff_out.change = <<[before |-> TAG_1_NEVER, after |-> TAG_1_EXPIRE]>>
    /\ diff_out.add = <<LogEntry(TAG_1_EXPIRE, FALSE)>>
    /\ diff_out.remove = <<LogEntry(TAG_1_NEVER, FALSE)>>

\* the desired annotations that are not in current, in the order of desired,
\* and the current ones that are not in desired, in the order of current
NewInOrder == SelectSeq(annos_should, LAMBDA a : a \notin Range(annos_are))

OldInOrder == SelectSeq(annos_are, LAMBDA a : a \notin Range(annos_should))

AllLogged(annos) == [i \in 1..Len(annos) |-> [data |-> annos[i], log |-> TRUE]]

NameUsable(org) == "name" \in DOMAIN org /\ org.name # Null /\ org.name # ""

\* C12: an update whose organisation id is not in the database, or whose
\* name is missing, null or empty, fails with CommitError and the database is
\* unchanged.
C12_UpdatePreconditions ==
    [][OnlyCommand(last', "update") =>
        LET org == Resolve(db, last'.request.orgs[1])
        IN (org.organisation_id \notin OrgIds(db) \/ ~NameUsable(org)) =>
                /\ last'.err = "CommitError"
                /\ last'.status = "400 Bad Request"
                /\ db' = db]_vars

C12_Witness ==
    /\ OnlyCommand(last, "update")
    /\ last.request.orgs[1].source = "catalogue"
    /\ last.request.orgs[1].n = 10
    /\ last.request.orgs[1].id \in OrgIds(db)
    /\ last.err = "CommitError"
    /\ db.annotation["organisation"] # <<>>
    /\ db.leaf["contact"] # {}

NullableColumns == {"comment", "ripe_org_hdl", "ti_handle", "first_handle"}

\* C13: a create whose name is missing, null or empty fails and inserts no
\* organisation row; a create with a name in which comment, ripe_org_hdl,
\* ti_handle or first_handle is null completes and stores "" for that field.
C13_CreateNullHandling ==
    [][OnlyCommand(last', "create") =>
        LET org == Resolve(db, last'.request.orgs[1])
        IN IF ~NameUsable(org)
           THEN ~Succeeded(last') /\ db'.organisation = db.organisation
           ELSE \A k \in NullableColumns :
                    (k \in DOMAIN org /\ org[k] = Null) =>
                        /\ Succeeded(last')
                        /\ \E o \in db'.organisation \ db.organisation : o[k] = ""]_vars

LeafKey == [contact |-> "contacts", national_cert |-> "national_certs"]

LeafAttributes == [contact |-> CONTACT_ATTRIBUTES, national_cert |-> NATIONAL_CERT_ATTRIBUTES]

\* the desired records of the aggregate with their mandatory fields only
DesiredLeafs(org, table) ==
    [i \in 1..Len(org[LeafKey[table]]) |->
        [a \in LeafAttributes[table] |-> org[LeafKey[table]][i][a]]]

OwnedLeafs(d, table, org_id) == {r \in d.leaf[table] : r.organisation_id = org_id}

\* as many rows as records, and each value as often in the rows as in the records
OneRowPerRecord(rows, records) ==
    /\ Cardinality(rows) = Len(records)
    /\ \A i \in 1..Len(records) :
        Cardinality({r \in rows : r.attrs = records[i]})
            = Cardinality({j \in 1..Len(records) : records[j] = records[i]})

\* the organisation a create or update that completed was about
Synced(d, l) ==
    IF l.request.commands[1] = "create" THEN d.serial["organisation"] + 1
    ELSE l.request.orgs[1].id

\* C14: after a create or update that completed, the contacts and the
\* national certs of the organisation are the desired records, one row per
\* record with the desired values of the mandatory fields, and the contacts
\* and national certs of every other organisation are the rows they were.
C14_LeafReplaceAll ==
    [][(Succeeded(last') /\ (OnlyCommand(last', "create") \/ OnlyCommand(last', "update"))) =>
        \A table \in LeafTables :
            /\ OneRowPerRecord(OwnedLeafs(db', table, Synced(db, last')),
                               DesiredLeafs(Resolve(db, last'.request.orgs[1]), table))
            /\ db'.leaf[table] \ OwnedLeafs(db', table, Synced(db, last'))
                = db.leaf[table] \ OwnedLeafs(db, table, Synced(db, last'))]_vars

\* an update has replaced one contact by two equal ones while another
\* organisation has a contact of its own
C14_Witness ==
    /\ OnlyCommand(last, "update") /\ Succeeded(last)
    /\ last.request.orgs[1].source = "catalogue" /\ last.request.orgs[1].n = 2
    /\ Cardinality(OwnedLeafs(db, "contact", last.request.orgs[1].id)) = 2
    /\ db.leaf["contact"] \ OwnedLeafs(db, "contact", last.request.orgs[1].id) # {}

\* nothing that belongs to the organisation is stored
NothingOf(d, org_id) ==
    /\ org_id \notin OrgIds(d)
    /\ \A table \in LeafTables : OwnedLeafs(d, table, org_id) = {}
    /\ LinkedAsns(d, org_id) = {}
    /\ \A table \in NtmTables : \A l \in d.organisation_to_ntm[table] : l.organisation_id # org_id
    /\ StoredAnnotations(d, "organisation", org_id) = {}

\* C15: after a delete that completed, no organisation row, contact,
\* national cert, ASN link, network link, FQDN link or annotation of the
\* organisation is stored, the result of the command is the id of the
\* organisation, and exactly one organisation row has been removed.
C15_DeleteResult ==
    [][(OnlyCommand(last', "delete") /\ Succeeded(last')) =>
        /\ NothingOf(db', last'.request.orgs[1].id)
        /\ last'.results = << <<"delete", last'.request.orgs[1].id>> >>
        /\ Cardinality(db.organisation \ db'.organisation) = 1
        /\ db'.organisation \subseteq db.organisation]_vars

\* an organisation with annotations has been deleted (the audit log ends
\* with the removal of its annotation) while another one is still stored
C15_Witness ==
    /\ OnlyCommand(last, "delete") /\ Succeeded(last)
    /\ last.results = << <<"delete", last.request.orgs[1].id>> >>
    /\ db.audit_log # <<>>
    /\ db.audit_log[Len(db.audit_log)].operation = "remove"
    /\ db.audit_log[Len(db.audit_log)].object_type = "organisation"
    /\ db.organisation # {}

\* C16: the audit log only grows: whatever the request and whether it
\* completes or fails, the entries that were in the log are still there,
\* unchanged and in their places, after it.
C16_AuditAppendOnly ==
    [][/\ Len(db'.audit_log) >= Len(db.audit_log)
       /\ SubSeq(db'.audit_log, 1, Len(db.audit_log)) = db.audit_log]_vars

\* a delete has added the removal of an annotation to a log that held the
\* entries of earlier requests
C16_Witness ==
    /\ Len(db.audit_log) >= 3
    /\ \E i, j \in 1..Len(db.audit_log) :
        /\ i < j
        /\ db.audit_log[i].operation = "add"
        /\ db.audit_log[j].operation = "remove"
    /\ OnlyCommand(last, "delete")

\* the record lacks a mandatory field or has None for it
InvalidLeaf(leaf, table) ==
    \E a \in LeafAttributes[table] : a \notin DOMAIN leaf \/ leaf[a] = Null

HasInvalidLeaf(org, table) ==
    \E i \in 1..Len(org[LeafKey[table]]) : InvalidLeaf(org[LeafKey[table]][i], table)

\* C19: when a desired national cert lacks a mandatory field (the name and
\* the contacts of the aggregate being in order), the create or update fails
\* with CommitError and none of the desired national certs has been inserted.
C19_LeafValidationPrecedesInsertion ==
    [][(OnlyCommand(last', "create") \/ OnlyCommand(last', "update")) =>
        LET org == Resolve(db, last'.request.orgs[1])
        IN (/\ Synced(db, last') \in OrgIds(db')
            /\ NameUsable(org)
            /\ ~HasInvalidLeaf(org, "contact")
            /\ HasInvalidLeaf(org, "national_cert")) =>
                /\ last'.err = "CommitError"
                /\ OwnedLeafs(db', "national_cert", Synced(db, last')) = {}]_vars

RowsWith(d, table, v) == {n \in d.ntm[table] : n.value = v}

LinksTo(d, table, id) == {l \in d.organisation_to_ntm[table] : l.id = id}

Counted(values, rows) == {<<v, Cardinality({r \in rows : r.attrs = v})>> : v \in values}

\* what is stored of the organisation, without the surrogate ids
Persisted(d, org_id) ==
    [row |-> {[k \in SCALAR_COLUMNS |-> o[k]] :
                o \in {x \in d.organisation : x.organisation_id = org_id}},
     annotations |-> StoredAnnotations(d, "organisation", org_id),
     asns |-> LinkedAsns(d, org_id),
     leafs |-> [table \in LeafTables |->
                    Counted({r.attrs : r \in OwnedLeafs(d, table, org_id)},
                            OwnedLeafs(d, table, org_id))],
     ntms |-> [table \in NtmTables |->
                    {[value |-> n.value, comment |-> n.comment,
                      annotations |-> StoredAnnotations(d, table, n.id)] :
                        n \in LinkedNtms(d, table, org_id)}]]

\* the same of an aggregate a client sends
Wanted(org) ==
    [row |-> {[k \in SCALAR_COLUMNS |-> org[k]]},
     annotations |-> AnnotationSet(org),
     asns |-> KeysOf(org.asns, "asn"),
     leafs |-> [table \in LeafTables |->
                    {<<DesiredLeafs(org, table)[i],
                       Cardinality({j \in 1..Len(org[LeafKey[table]]) :
                            DesiredLeafs(org, table)[j] = DesiredLeafs(org, table)[i]})>> :
                        i \in 1..Len(org[LeafKey[table]])}],
     ntms |-> [table \in NtmTables |->
                    {[value |-> org[NtmKey[table]][i][NtmColumn[table]],
                      comment |-> org[NtmKey[table]][i].comment,
                      annotations |-> AnnotationSet(org[NtmKey[table]][i])] :
                        i \in 1..Len(org[NtmKey[table]])}]]

AllCompleted == \A t \in Threads : batches[t].pc = "done" /\ batches[t].status = "200 OK"

AllEnded == \A t \in Threads : batches[t].pc = "done"

SameOrganisation == \A t, u \in Threads : batches[t].id = batches[u].id

DifferentOrganisations == \A t, u \in Threads : t # u => batches[t].id # batches[u].id

\* C17: when the updates of the threads are for the same organisation and all
\* of them have completed, what is stored of the organisation is the
\* aggregate of the update that ended last.
C17_LastCommitWins ==
    (AllCompleted /\ SameOrganisation) =>
        Persisted(db, batches[1].id) = Wanted(Desired(batches[finished[Len(finished)]]))

\* the response and the database when the request of the thread is the only
\* one that is served
Alone(b) ==
    commit_pending_org_changes(
        start_db,
        Body(start_db, Request(<< <<"update", FromCatalogue(b.n, b.id)>> >>, TRUE, TRUE, 0)),
        USERNAME, TRUE)

\* C18: when the updates of the threads are for different organisations and
\* all of them have ended, each has the response it has when it is served
\* alone, and what is stored of its organisation is what is stored then.
C18_IsolatedBatches ==
    (AllEnded /\ DifferentOrganisations) =>
        \A t \in Threads :
            /\ batches[t].status = Alone(batches[t]).status
            /\ Persisted(db, batches[t].id) = Persisted(Alone(batches[t]).db, batches[t].id)

(***************************************************************************)
(* Duplicates, unlinking and the audit log (checked under Spec)            *)
(***************************************************************************)
\* the aggregate raises nothing on its own: a name, complete leafs, and a
\* comment and annotations in every network and fqdn
WellFormed(org) ==
    /\ NameUsable(org)
    /\ \A table \in LeafTables : ~HasInvalidLeaf(org, table)
    /\ \A table \in NtmTables : \A i \in 1..Len(org[NtmKey[table]]) :
            {"comment", "annotations"} \subseteq DOMAIN org[NtmKey[table]][i]

\* the keys the desired list holds several times and the organisation is not linked to
DuplicateMissing(d, org, table, org_id) ==
    {v \in KeysOf(org[NtmKey[table]], NtmColumn[table]) :
        /\ Cardinality(With(org[NtmKey[table]], NtmColumn[table], v)) > 1
        /\ v \notin {n.value : n \in LinkedNtms(d, table, org_id)}}

\* C21: when the desired networks or fqdns of a create or update hold a key
\* several times that the organisation is not linked to, the request
\* completes, one row and one join record are created for the key, and the
\* row has the comment and the annotations of the first entry with the key.
C21_DuplicateKeyFirstWins ==
    [][(OnlyCommand(last', "create") \/ OnlyCommand(last', "update")) =>
        LET org == Resolve(db, last'.request.orgs[1])
        IN \A table \in NtmTables :
            \A v \in DuplicateMissing(db, org, table, Synced(db, last')) :
                (WellFormed(org) /\ (OnlyCommand(last', "create") \/ Synced(db, last') \in OrgIds(db))) =>
                    /\ Succeeded(last')
                    /\ Cardinality(RowsWith(db', table, v) \ db.ntm[table]) = 1
                    /\ \A n \in RowsWith(db', table, v) \ db.ntm[table] :
                        /\ n.id > db.serial[table]
                        /\ LinksTo(db', table, n.id)
                            = {[organisation_id |-> Synced(db, last'), id |-> n.id]}
                        /\ n.comment = FirstWith(org[NtmKey[table]], NtmColumn[table], v).comment
                        /\ StoredAnnotations(db', table, n.id)
                            = AnnotationSet(FirstWith(org[NtmKey[table]], NtmColumn[table], v))
                    /\ Cardinality({l \in db'.organisation_to_ntm[table] \ db.organisation_to_ntm[table] :
                            \E n \in RowsWith(db', table, v) : n.id = l.id}) = 1]_vars

\* the aggregate with the network 10.0.0.0/8 twice has been created: one row
\* with the comment of the first entry is linked
C21_Witness ==
    /\ OnlyCommand(last, "create") /\ Succeeded(last)
    /\ last.request.orgs[1].n = 3
    /\ \E n \in LinkedNtms(db, "network", last.results[1][2]) :
        /\ n.comment = OrgCatalogue[3].networks[1].comment
        /\ StoredAnnotations(db, "network", n.id) = AnnotationSet(OrgCatalogue[3].networks[1])
    /\ Cardinality(LinkedNtms(db, "network", last.results[1][2])) = 1

\* the annotations stored for the owner, one per row
AnnotationRows(d, table, key) ==
    {i \in 1..Len(d.annotation[table]) : d.annotation[table][i].key = key}

\* the entries of the audit log a2 that were not in a1 yet and tell the
\* removal of an annotation of the object
RemovalsOf(a1, a2, table, object) ==
    {i \in (Len(a1) + 1)..Len(a2) :
        /\ a2[i].operation = "remove"
        /\ a2[i].table = table \o "_annotation"
        /\ a2[i].object_value = object}

\* every annotation the owner had in d1 is gone in d2 and has a remove entry of its own
CutAndLogged(d1, d2, table, key, object) ==
    /\ AnnotationRows(d2, table, key) = {}
    /\ Cardinality(RemovalsOf(d1.audit_log, d2.audit_log, table, object))
        = Cardinality(AnnotationRows(d1, table, key))
    /\ {d2.audit_log[i].before : i \in RemovalsOf(d1.audit_log, d2.audit_log, table, object)}
        = StoredAnnotations(d1, table, key)

\* the networks or fqdns an update unlinks: linked, and the key not desired
UnlinkedNtms(d, org, table) ==
    {n \in LinkedNtms(d, table, org.organisation_id) :
        n.value \notin KeysOf(org[NtmKey[table]], NtmColumn[table])}

\* the ASNs an update unlinks whose annotations go with the link
UnlinkedAsns(d1, d2, org) ==
    {asn \in LinkedAsns(d1, org.organisation_id) \ KeysOf(org.asns, "asn") :
        StoredAnnotations(d2, "autonomous_system", asn) # StoredAnnotations(d1, "autonomous_system", asn)}

\* C22: when an update that completes unlinks a network, an fqdn or an ASN
\* because its key is not in the desired list, every annotation that is
\* removed from storage with it has a remove entry of its own in the audit
\* log, and the join record is deleted.
C22_UnlinkRemovesAndLogs ==
    [][(OnlyCommand(last', "update") /\ Succeeded(last')) =>
        LET org == Resolve(db, last'.request.orgs[1])
        IN /\ \A table \in NtmTables : \A n \in UnlinkedNtms(db, org, table) :
                /\ CutAndLogged(db, db', table, n.id, n.value)
                /\ LinksTo(db', table, n.id) = {}
           /\ \A asn \in LinkedAsns(db, org.organisation_id) \ KeysOf(org.asns, "asn") :
                asn \notin LinkedAsns(db', org.organisation_id)
           /\ \A asn \in UnlinkedAsns(db, db', org) :
                CutAndLogged(db, db', "autonomous_system", asn, ToString(asn))]_vars

AllLinkedAsns(d) == {l.asn : l \in d.organisation_to_asn}

AddEntry(anno) ==
    [table |-> "organisation_annotation", user |-> USERNAME, operation |-> "add",
     object_type |-> "organisation", object_value |-> "Org", after |-> anno]

RemoveEntry(anno) ==
    [table |-> "organisation_annotation", user |-> USERNAME, operation |-> "remove",
     object_type |-> "organisation", object_value |-> "Org", before |-> anno]

ChangeEntry(c) ==
    [table |-> "organisation_annotation", user |-> USERNAME, operation |-> "change",
     object_type |-> "organisation", object_value |-> "Org",
     before |-> c.before, after |-> c.after]

LoggedData(items) ==
    LET logged == SelectSeq(items, LAMBDA it : it.log)
    IN [i \in 1..Len(logged) |-> logged[i].data]

EntriesFor(diff, cut) ==
    LET adds == LoggedData(diff.add)
        removes == IF cut THEN LoggedData(diff.remove) ELSE <<>>
    IN [i \in 1..Len(adds) |-> AddEntry(adds[i])]
       \o [i \in 1..Len(removes) |-> RemoveEntry(removes[i])]
       \o [i \in 1..Len(diff.change) |-> ChangeEntry(diff.change[i])]

Appended(d1, d2) == SubSeq(d2.audit_log, Len(d1.audit_log) + 1, Len(d2.audit_log))

\* what the entries say about one pair of the diff and what the table then
\* holds
PairLogged(entries, stored, c) ==
    /\ Cardinality({i \in 1..Len(entries) : entries[i] = ChangeEntry(c)}) = 1
    /\ \A i \in 1..Len(entries) :
          /\ entries[i].operation = "add" => entries[i].after # c.after
          /\ entries[i].operation = "remove" => entries[i].before # c.before
    /\ c.before \notin stored
    /\ c.after \in stored

ReconciledAs(d1, d2, diff, cut) ==
    /\ Len(d2.audit_log) >= Len(d1.audit_log)
    /\ SubSeq(d2.audit_log, 1, Len(d1.audit_log)) = d1.audit_log
    /\ Appended(d1, d2) = EntriesFor(diff, cut)
    /\ \A i \in 1..Len(diff.change) :
          PairLogged(Appended(d1, d2), StoredAnnotations(d2, "organisation", 1),
                     diff.change[i])

\* C24: one reconciliation of the annotations of an organisation appends
\* to the audit log exactly one 'add' entry per add item of its diff with
\* log = true, one 'remove' entry per remove item with log = true (in cut
\* mode only) and one 'change' entry with before and after per change pair.
\* A pair whose only difference is the expiry leaves exactly one 'change'
\* entry and neither an 'add' nor a 'remove' entry, while its old value is
\* deleted from the table and its new value is inserted.
C24_ReconciliationAudit ==
    [][db.organisation # {} =>
        \E tie \in BOOLEAN :
            ReconciledAs(db, db',
                         _annotation_diff(__db_query_annotations(db, "organisation", 1),
                                          annos_should, detect_flag, tie),
                         detect_flag)]_vars

C24_Witness ==
    /\ detect_flag
    /\ annos_are = <<TAG_1_NEVER>>
    /\ annos_should = <<TAG_1_EXPIRE, TAG_2>>
    /\ db.audit_log = <<AddEntry(TAG_1_NEVER), AddEntry(TAG_2),
                        ChangeEntry([before |-> TAG_1_NEVER, after |-> TAG_1_EXPIRE])>>
    /\ StoredAnnotations(db, "organisation", 1) = {TAG_1_EXPIRE, TAG_2}

(***************************************************************************)
(* The order in which a delete cuts the relationships (checked under Spec) *)
(***************************************************************************)
\* the relationship of the organisation holds nothing in database d
Cut(d, relationship, org_id) ==
    CASE relationship = "annotations" -> StoredAnnotations(d, "organisation", org_id) = {}
      [] relationship = "asns" -> LinkedAsns(d, org_id) = {}
      [] relationship = "contacts" -> OwnedLeafs(d, "contact", org_id) = {}
      [] relationship = "national_certs" -> OwnedLeafs(d, "national_cert", org_id) = {}
      [] relationship = "leaves" ->
            \A table \in LeafTables : OwnedLeafs(d, table, org_id) = {}
      [] relationship = "networks" ->
            \A l \in d.organisation_to_ntm["network"] : l.organisation_id # org_id
      [] relationship = "fqdns" ->
            \A l \in d.organisation_to_ntm["fqdn"] : l.organisation_id # org_id

\* the delete that starts in d and passes through the databases of steps
\* never has a relationship cut while one that comes earlier in order still
\* holds something
CutInOrder(d, steps, org_id, order) ==
    \A i, j \in 1..Len(order) :
        (i < j /\ ~Cut(d, order[j], org_id)) =>
            \A k \in 1..Len(steps) :
                Cut(steps[k].db, order[j], org_id) => Cut(steps[k].db, order[i], org_id)

\* the row is there until the last statement, which finds every
\* relationship cut
RowLast(steps, org_id, order) ==
    /\ \A k \in 1..(Len(steps) - 1) : org_id \in OrgIds(steps[k].db)
    /\ \A i \in 1..Len(order) : Cut(steps[Len(steps) - 1].db, order[i], org_id)
    /\ org_id \notin OrgIds(steps[Len(steps)].db)

DeleteOrdered(d1, d2, org_id, order) ==
    \E tie \in CatalogueTies :
        /\ d2 = DeleteSteps(d1, org_id, USERNAME, tie)[7].db
        /\ CutInOrder(d1, DeleteSteps(d1, org_id, USERNAME, tie), org_id, order)
        /\ RowLast(DeleteSteps(d1, org_id, USERNAME, tie), org_id, order)

\* C25 as stated: a delete cuts the relationships of the organisation in
\* the order organisation annotations, ASNs, leaves (contacts and national
\* certs), networks, FQDNs, and removes the organisation row last.
C25_DeleteOrderAsStated ==
    [][(OnlyCommand(last', "delete") /\ Succeeded(last')) =>
        DeleteOrdered(db, db', last'.request.orgs[1].id,
                      <<"annotations", "asns", "leaves", "networks", "fqdns">>)]_vars

\* C25, amended: a delete cuts the relationships of the organisation in the
\* order ASNs, contacts, networks, FQDNs, national certs, organisation
\* annotations, and removes the organisation row last, after every
\* relationship has been cut.
C25_DeleteOrder ==
    [][(OnlyCommand(last', "delete") /\ Succeeded(last')) =>
        DeleteOrdered(db, db', last'.request.orgs[1].id,
                      <<"asns", "contacts", "networks", "fqdns", "national_certs",
                        "annotations">>)]_vars

\* the organisation that was deleted had held something in every
\* relationship: the audit log ends with the removal of the annotation of
\* its network, of its FQDN and of the organisation, in this order
C25_Witness ==
    /\ OnlyCommand(last, "delete") /\ Succeeded(last)
    /\ Len(db.audit_log) >= 3
    /\ db.audit_log[Len(db.audit_log) - 2].operation = "remove"
    /\ db.audit_log[Len(db.audit_log) - 2].object_type = "network"
    /\ db.audit_log[Len(db.audit_log) - 1].operation = "remove"
    /\ db.audit_log[Len(db.audit_log) - 1].object_type = "fqdn"
    /\ db.audit_log[Len(db.audit_log)].operation = "remove"
    /\ db.audit_log[Len(db.audit_log)].object_type = "organisation"
    /\ db.leaf["contact"] = {} /\ db.serial["contact"] > 0
    /\ db.leaf["national_cert"] = {} /\ db.serial["national_cert"] > 0

(***************************************************************************)
(* Pairs and the set the diff leads to (checked under DiffSpec)            *)
(***************************************************************************)
ChangesFrom(a) == {i \in 1..Len(diff_out.change) : diff_out.change[i].before = a}

ChangesTo(b) == {i \in 1..Len(diff_out.change) : diff_out.change[i].after = b}

Occurrences(entries, e) == Cardinality({i \in 1..Len(entries) : entries[i] = e})

\* C26: with detection on (and fewer than 20 annotations in total), a
\* current-only annotation is the before of at most one change entry and a
\* desired-only annotation the after of at most one; a current-only
\* annotation without a partner is in remove exactly once, with log = true,
\* and a desired-only one without a partner is in add exactly once, with
\* log = true.
C26_PairedAtMostOnce ==
    (diff_out.called /\ detect_flag /\ TotalAnnotations < ANNOTATION_DIFF_MAX) =>
        /\ \A a \in AreOnly :
              /\ Cardinality(ChangesFrom(a)) <= 1
              /\ ChangesFrom(a) = {} =>
                    /\ Occurrences(diff_out.remove, LogEntry(a, TRUE)) = 1
                    /\ Occurrences(diff_out.remove, LogEntry(a, FALSE)) = 0
        /\ \A b \in ShouldOnly :
              /\ Cardinality(ChangesTo(b)) <= 1
              /\ ChangesTo(b) = {} =>
                    /\ Occurrences(diff_out.add, LogEntry(b, TRUE)) = 1
                    /\ Occurrences(diff_out.add, LogEntry(b, FALSE)) = 0

\* two current annotations and one desired annotation that differ in
\* expires only: one change and one logged remove
C26_Witness ==
    /\ diff_out.called
    /\ detect_flag
    /\ annos_are = <<TAG_1_NEVER, TAG_1_EXPIRE>>
    /\ annos_should = <<TAG_1>>
    /\ Len(diff_out.change) = 1
    /\ diff_out.add = <<LogEntry(TAG_1, FALSE)>>
    /\ Cardinality(LoggedAs(diff_out.remove, TRUE)) = 1
    /\ Cardinality(LoggedAs(diff_out.remove, FALSE)) = 1

(***************************************************************************)
(* References between the tables (checked under Spec)                      *)
(***************************************************************************)
NtmIds(d, table) == {n.id : n \in d.ntm[table]}

AnnotationKeys(d, table) == {d.annotation[table][i].key : i \in 1..Len(d.annotation[table])}

\* every join record and every annotation of d names rows that are stored
ReferencesResolve(d) ==
    /\ \A l \in d.organisation_to_asn : l.organisation_id \in OrgIds(d)
    /\ \A table \in NtmTables :
          /\ \A l \in d.organisation_to_ntm[table] :
                l.organisation_id \in OrgIds(d) /\ l.id \in NtmIds(d, table)
          /\ AnnotationKeys(d, table) \subseteq NtmIds(d, table)
    /\ AnnotationKeys(d, "organisation") \subseteq OrgIds(d)

\* C27: after every request that completed, every ASN, network and FQDN
\* join record names an organisation that is stored, every network and
\* FQDN join record names a network or FQDN row that is stored, and every
\* network, FQDN and organisation annotation names a row that is stored.
C27_ReferentialIntegrity ==
    Succeeded(last) => ReferencesResolve(db)

\* an organisation with links and annotations has been deleted while
\* another one keeps its links and annotations
C27_Witness ==
    /\ OnlyCommand(last, "delete") /\ Succeeded(last)
    /\ db.organisation_to_asn # {}
    /\ db.organisation_to_ntm["network"] # {}
    /\ db.annotation["network"] # <<>>
    /\ db.annotation["organisation"] # <<>>

(***************************************************************************)
(* The set the diff leads to (checked under DiffSpec)                      *)
(***************************************************************************)
\* C29: for every pair of lists and both values of detect_modifications,
\* the current annotations without the data of remove, together with the
\* data of add, are the desired annotations (as sets); no annotation is in
\* both add and remove; no add item is a current annotation and no remove
\* item is a desired one.
C29_DiffReachesDesired ==
    diff_out.called =>
        /\ (Range(annos_are) \ DataOf(diff_out.remove)) \cup DataOf(diff_out.add)
                = Range(annos_should)
        /\ DataOf(diff_out.add) \cap DataOf(diff_out.remove) = {}
        /\ DataOf(diff_out.add) \cap Range(annos_are) = {}
        /\ DataOf(diff_out.remove) \cap Range(annos_should) = {}

\* detection on: a pair, an addition and a removal in one diff
C29_Witness ==
    /\ diff_out.called
    /\ detect_flag
    /\ annos_are = <<TAG_1_NEVER, TAG_2>>
    /\ annos_should = <<TAG_1_EXPIRE, INHIBITION_EXPIRE>>
    /\ Len(diff_out.change) = 1
    /\ Cardinality(LoggedAs(diff_out.add, TRUE)) = 1
    /\ Cardinality(LoggedAs(diff_out.remove, TRUE)) = 1

(***************************************************************************)
(* What a command leaves alone (checked under Spec)                        *)
(***************************************************************************)
\* what the database holds for organisation b: its row, its annotations,
\* its contacts and national certs, its join records and the networks and
\* fqdns it is linked to, with their comments and annotations
OwnedBy(d, b) ==
    [row |-> {o \in d.organisation : o.organisation_id = b},
     annotations |-> SelectSeq(d.annotation["organisation"], LAMBDA r : r.key = b),
     leafs |-> [table \in LeafTables |-> OwnedLeafs(d, table, b)],
     asns |-> LinkedAsns(d, b),
     links |-> [table \in NtmTables |->
                    {l \in d.organisation_to_ntm[table] : l.organisation_id = b}],
     ntms |-> [table \in NtmTables |->
                    {<<n, SelectSeq(d.annotation[table], LAMBDA r : r.key = n.id)>> :
                        n \in LinkedNtms(d, table, b)}]]

\* the ASN numbers the aggregate names
NamedAsns(org) == IF Has(org, "asns") THEN KeysOf(org.asns, "asn") ELSE {}

AsnAnnotationsOf(d, b, named) ==
    [asn \in LinkedAsns(d, b) \ named |->
        SelectSeq(d.annotation["autonomous_system"], LAMBDA r : r.key = asn)]

FrameOf(d1, d2, a, named) ==
    \A b \in OrgIds(d1) \ {a} :
        /\ OwnedBy(d2, b) = OwnedBy(d1, b)
        /\ AsnAnnotationsOf(d2, b, named) = AsnAnnotationsOf(d1, b, named)

\* C30: a create, update or delete of one organisation, completed or not,
\* leaves to every other organisation its row, its annotations, its
\* contacts and national certs, its ASN, network and FQDN join records, the
\* network and FQDN rows it is linked to with their comments and
\* annotations, and the annotations of its ASNs, those numbers excepted
\* that the aggregate of the command names.
C30_CommandFrame ==
    [][(\E command \in KNOWN_COMMANDS : OnlyCommand(last', command)) =>
        FrameOf(db, db', Synced(db, last'),
                NamedAsns(Resolve(db, last'.request.orgs[1])))]_vars

\* an update has given an ASN other annotations while another organisation
\* keeps its own ASN, network and contact
C30_Witness ==
    /\ OnlyCommand(last, "update") /\ Succeeded(last)
    /\ last.request.orgs[1].source = "catalogue" /\ last.request.orgs[1].n = 2
    /\ \E b \in OrgIds(db) \ {last.request.orgs[1].id} :
          /\ LinkedAsns(db, b) # {}
          /\ LinkedNtms(db, "network", b) # {}
          /\ OwnedLeafs(db, "contact", b) # {}

(***************************************************************************)
(* Handing out connections (checked under ConnSpec)                        *)
(***************************************************************************)
\* the connections this caller holds
Held(p) == p.used \ p.others

\* the liveness query has failed on the connection the caller holds
CheckFailed(h1, h2) == h1.pc = "check" /\ h2.pc # "yielded" /\ h2 # h1

\* C28: db_connection asks for a connection at most
\* MAX_POOL_CONNECTIONS + 1 times; a connection that fails the liveness
\* query is closed and given back to the pool; after the last failed round
\* it raises RuntimeError and has not yielded a connection; a connection
\* that passes is the one that is yielded, and it is given back when the
\* with-block ends, whether it raises or not; no call that is over leaves a
\* connection handed out.
C28_ConnectionHandOut ==
    [][/\ handout'.attempts <= MAX_POOL_CONNECTIONS + 1
       /\ CheckFailed(handout, handout') =>
            /\ handout.connection \notin contactdb_pool'.used
            /\ handout.connection \notin contactdb_pool'.idle
            /\ (handout.attempts = MAX_POOL_CONNECTIONS + 1) =>
                 (handout'.pc = "idle" /\ handout'.result = "RuntimeError")
       /\ handout'.result = "RuntimeError" =>
            (handout'.attempts = MAX_POOL_CONNECTIONS + 1 /\ ~handout'.yielded)
       /\ handout'.pc = "yielded" =>
            /\ handout'.connection = handout.connection
            /\ Held(contactdb_pool') = {handout'.connection}
       /\ (handout.pc = "yielded" /\ handout'.pc # "yielded") =>
            /\ handout'.pc = "idle"
            /\ handout.connection \notin contactdb_pool'.used
       /\ handout'.pc \in {"idle", "loop"} => Held(contactdb_pool') = {}]_vars

\* every round of a call has failed, with other threads holding
\* connections, and the pool has no connection of the caller
C28_Witness ==
    /\ handout.pc = "idle"
    /\ handout.result = "RuntimeError"
    /\ handout.attempts = MAX_POOL_CONNECTIONS + 1
    /\ handout.calls = 2
    /\ contactdb_pool.others # {}
    /\ Held(contactdb_pool) = {}

====
